---- MODULE Spec2Model ----
(***************************************************************************)
(* A model of slintrust: the OrmStruct direct API (orm.rs), the fluent     *)
(* QueryBuilder (query_builder.rs) and the typed Table / Record / Query    *)
(* facade (new_orm.rs), together with the part of the database the         *)
(* statements they issue act on.                                           *)
(*                                                                         *)
(* SQL text is built as the code's format! calls build it, as strings.     *)
(* Beside the text every statement carries a "plan": the same statement    *)
(* in structured form, which is what the database model evaluates.         *)
(***************************************************************************)
EXTENDS Integers, Sequences, FiniteSets, TLC

VARIABLES
    pool,      \* OrmStruct.pool: TRUE when Some(pool)
    tables,    \* names of the tables that exist in the database
    db,        \* rows of the table, in storage order
    uuidCtr,   \* how many identifiers Uuid::new_v4 has produced
    table,     \* the Table<T> handle: name and key_column
    q,         \* the Query<T> builder in flight: <<>> or <<state>>
    qb,        \* the QueryBuilder in flight: <<>> or <<state>>
    rec,       \* the Record<T> the caller holds: <<>> or <<record>>
    last,      \* the call that made the last step
    res,       \* what that call returned
    issued,    \* the statements that call sent to the database, in order
    before,    \* the rows of the table when that call was made
    insLog,    \* per insert call that reached the database: the key it bound
    inflight   \* the Record::update call a task is in: <<>> or <<its position>>

vars == <<pool, tables, db, uuidCtr, table, q, qb, rec, last, res, issued, before, insLog,
          inflight>>

----------------------------------------------------------------------------
(* Bounds of the model *)

MaxRows == 2
MaxInserts == 2
MaxWheres == 2
MaxHavings == 2
MaxQbWheres == 2
MaxQbJoins == 1

----------------------------------------------------------------------------
(* serde_json::Value.  Numbers and booleans carry their JSON text, so that *)
(* n.to_string() is the field v.  An object is a function from its keys.   *)

JStr(s) == [t |-> "str", v |-> s]
JNum(n) == [t |-> "num", v |-> n]
JBool(b) == [t |-> "bool", v |-> b]
JNull == [t |-> "null", v |-> ""]

\* Option<X> is a sequence of at most one X.
None == <<>>
Some(x) == <<x>>

\* The empty JSON object.
EmptyObj == <<>>

\* Keys of an object in the order serde_json's Map (a BTreeMap) iterates them.
KeyOrder == <<"age", "email", "id", "name", "zip">>

RECURSIVE KeysFrom(_, _)
KeysFrom(obj, i) ==
    IF i > Len(KeyOrder) THEN <<>>
    ELSE IF KeyOrder[i] \in DOMAIN obj
         THEN <<KeyOrder[i]>> \o KeysFrom(obj, i + 1)
         ELSE KeysFrom(obj, i + 1)

Keys(obj) == KeysFrom(obj, 1)

----------------------------------------------------------------------------
(* schema.rs *)

ColumnSchema(name, primary, unique, not_null, uuid) ==
    [name |-> name, sql_type |-> "TEXT", primary |-> primary,
     unique |-> unique, not_null |-> not_null, uuid |-> uuid]

\* users(id PK generated, name TEXT, email TEXT UNIQUE, age TEXT)
UsersSchema ==
    [name |-> "users",
     columns |-> << ColumnSchema("id", TRUE, FALSE, TRUE, TRUE),
                    ColumnSchema("name", FALSE, FALSE, TRUE, FALSE),
                    ColumnSchema("email", FALSE, TRUE, TRUE, FALSE),
                    ColumnSchema("age", FALSE, FALSE, FALSE, FALSE) >>]

\* OrmStruct.schemas
Schemas == <<UsersSchema>>

\* self.schemas.iter().find(|s| s.name == table_name)
RECURSIVE FindFrom(_, _)
FindFrom(table_name, i) ==
    IF i > Len(Schemas) THEN None
    ELSE IF Schemas[i].name = table_name THEN Some(Schemas[i])
    ELSE FindFrom(table_name, i + 1)

FindSchema(table_name) == FindFrom(table_name, 1)

ColNames(schema) == [i \in 1..Len(schema.columns) |-> schema.columns[i].name]

\* The target type T of the facade: the Rust type of each field.
\*   struct User { id: String, name: String, email: String, age: Option<i64> }
TFields == [id |-> "String", name |-> "String", email |-> "String",
            age |-> "Option<i64>"]

----------------------------------------------------------------------------
(* Strings *)

\* format!("${}", i)
Ph(i) == "$" \o ToString(i)

\* v.join(sep)
RECURSIVE Join(_, _)
Join(v, sep) ==
    IF Len(v) = 0 THEN ""
    ELSE IF Len(v) = 1 THEN v[1]
    ELSE v[1] \o sep \o Join(Tail(v), sep)

\* s has sub as a contiguous part.
Contains(s, sub) ==
    \E i \in 1..(Len(s) - Len(sub) + 1) : SubSeq(s, i, i + Len(sub) - 1) = sub

\* SQL LIKE: % matches any run of characters, any other character itself.
RECURSIVE LikeMatch(_, _)
LikeMatch(s, p) ==
    IF Len(p) = 0 THEN Len(s) = 0
    ELSE IF SubSeq(p, 1, 1) = "%"
         THEN \/ LikeMatch(s, SubSeq(p, 2, Len(p)))
              \/ Len(s) > 0 /\ LikeMatch(SubSeq(s, 2, Len(s)), p)
         ELSE /\ Len(s) > 0
              /\ SubSeq(s, 1, 1) = SubSeq(p, 1, 1)
              /\ LikeMatch(SubSeq(s, 2, Len(s)), SubSeq(p, 2, Len(p)))

\* Lower-casing, for ILIKE, of the letters the model's texts use.
LowerChar(c) ==
    CASE c = "A" -> "a"
      [] c = "B" -> "b"
      [] c = "D" -> "d"
      [] OTHER -> c

RECURSIVE Lower(_)
Lower(s) ==
    IF Len(s) = 0 THEN ""
    ELSE LowerChar(SubSeq(s, 1, 1)) \o Lower(SubSeq(s, 2, Len(s)))

\* The collation of the texts the model stores, smallest first.
Collation == <<"", "42", "Ada", "Bob", "a@m", "b@m", "k1", "u1", "u2", "u3">>

RECURSIVE RankFrom(_, _)
RankFrom(s, i) ==
    IF i > Len(Collation) THEN i
    ELSE IF Collation[i] = s THEN i
    ELSE RankFrom(s, i + 1)

Rank(s) == RankFrom(s, 1)

----------------------------------------------------------------------------
(* The database, as far as the statements of this library exercise it.     *)
(* A bound parameter is [t, v] with t in {"text", "bool", "null"}; a cell  *)
(* is [ty, isnull, v].  Rows come back in storage order unless the         *)
(* statement orders them.                                                  *)

PText(s) == [t |-> "text", v |-> s]
PBool(b) == [t |-> "bool", v |-> b]
PNull == [t |-> "null", v |-> ""]

Cell(ty, isnull, v) == [ty |-> ty, isnull |-> isnull, v |-> v]

DbErr == [ok |-> FALSE, rows |-> <<>>]
DbOk(rows) == [ok |-> TRUE, rows |-> rows]

Range(f) == {f[i] : i \in DOMAIN f}

\* The column definition CREATE TABLE gave the column, <<>> if there is none.
RECURSIVE ColDefFrom(_, _, _)
ColDefFrom(schema, c, i) ==
    IF i > Len(schema.columns) THEN None
    ELSE IF schema.columns[i].name = c THEN Some(schema.columns[i])
    ELSE ColDefFrom(schema, c, i + 1)

ColDef(schema, c) == ColDefFrom(schema, c, 1)

\* The table definitions migrate created: one per schema held.
TableDef(t) == FindSchema(t)

TableExists(t) == t \in tables /\ TableDef(t) # None

HasCol(t, c) == TableExists(t) /\ ColDef(TableDef(t)[1], c) # None

\* A parameter can be stored in (or compared with) a column of its type only.
ParamFits(p, coldef) ==
    \/ p.t = "null"
    \/ p.t = "text" /\ coldef.sql_type = "TEXT"
    \/ p.t = "bool" /\ coldef.sql_type = "BOOLEAN"

ParamCell(p, coldef) ==
    Cell(coldef.sql_type, p.t = "null", IF p.t = "null" THEN "" ELSE p.v)

\* NOT NULL, UNIQUE and PRIMARY KEY as declared by migrate.
ConstraintsHold(schema, rows) ==
    \A k \in 1..Len(schema.columns) :
        LET cd == schema.columns[k] IN
        /\ (cd.not_null \/ cd.primary) =>
               \A i \in 1..Len(rows) : ~rows[i][cd.name].isnull
        /\ (cd.unique \/ cd.primary) =>
               \A i, j \in 1..Len(rows) :
                   (i # j /\ ~rows[i][cd.name].isnull /\ ~rows[j][cd.name].isnull)
                       => rows[i][cd.name].v # rows[j][cd.name].v

\* The placeholders a statement refers to must be exactly the bound ones.
PhsMatch(phs, params) == phs = 1..Len(params)

\* col op $ph on one row.
CondHolds(row, cond, params) ==
    LET p == params[cond.ph]
        c == row[cond.col]
    IN  /\ ~c.isnull
        /\ p.t # "null"
        /\ CASE cond.op = "=" -> c.v = p.v
             [] cond.op = "!=" -> c.v # p.v
             [] cond.op = "LIKE" -> LikeMatch(c.v, p.v)
             [] cond.op = "ILIKE" -> LikeMatch(Lower(c.v), Lower(p.v))
             [] OTHER -> FALSE

CondOk(t, cond, params) ==
    /\ HasCol(t, cond.col)
    /\ cond.op \in {"=", "!=", "LIKE", "ILIKE"}
    /\ cond.ph \in 1..Len(params)
    /\ ParamFits(params[cond.ph], ColDef(TableDef(t)[1], cond.col)[1])

RECURSIVE Filter(_, _, _)
Filter(rows, conds, params) ==
    IF Len(rows) = 0 THEN <<>>
    ELSE IF \A k \in 1..Len(conds) : CondHolds(rows[1], conds[k], params)
         THEN <<rows[1]>> \o Filter(Tail(rows), conds, params)
         ELSE Filter(Tail(rows), conds, params)

RECURSIVE Dedup(_)
Dedup(rows) ==
    IF Len(rows) = 0 THEN <<>>
    ELSE LET init == Dedup(SubSeq(rows, 1, Len(rows) - 1))
             r == rows[Len(rows)]
         IN  IF r \in Range(init) THEN init ELSE Append(init, r)

\* NULLs sort after every text.
CellRank(c) == IF c.isnull THEN Len(Collation) + 2 ELSE Rank(c.v)

Before(a, b, order) ==
    IF order.dir = "DESC"
    THEN CellRank(a[order.col]) > CellRank(b[order.col])
    ELSE CellRank(a[order.col]) < CellRank(b[order.col])

\* Insert r into the sorted s, after the rows it does not precede.
RECURSIVE SortedInsert(_, _, _)
SortedInsert(s, r, order) ==
    IF Len(s) = 0 THEN <<r>>
    ELSE IF Before(r, s[1], order) THEN <<r>> \o s
    ELSE <<s[1]>> \o SortedInsert(Tail(s), r, order)

RECURSIVE SortRows(_, _)
SortRows(rows, order) ==
    IF Len(rows) = 0 THEN <<>>
    ELSE SortedInsert(SortRows(SubSeq(rows, 1, Len(rows) - 1), order),
                      rows[Len(rows)], order)

Drop(rows, n) == IF n >= Len(rows) THEN <<>> ELSE SubSeq(rows, n + 1, Len(rows))
Take(rows, n) == IF n >= Len(rows) THEN rows ELSE SubSeq(rows, 1, n)

Project(rows, cols) ==
    IF cols = <<"*">> THEN rows
    ELSE [i \in 1..Len(rows) |-> [c \in Range(cols) |-> rows[i][c]]]

\* The result of a SELECT.
DbSelect(rows, plan, params) ==
    LET conds == plan.conds \o plan.havings
        grouped == plan.group_by # <<>> \/ plan.havings # <<>>
    IN
    IF \/ ~TableExists(plan.table)
       \/ \E j \in 1..Len(plan.joins) : ~TableExists(plan.joins[j])
       \/ \E k \in 1..Len(conds) : ~CondOk(plan.table, conds[k], params)
       \/ ~PhsMatch({conds[k].ph : k \in 1..Len(conds)}, params)
       \/ \E c \in Range(plan.group_by) : ~HasCol(plan.table, c)
       \/ \E c \in Range(plan.selects) : c # "*" /\ ~HasCol(plan.table, c)
       \/ plan.order # None /\ ~HasCol(plan.table, plan.order[1].col)
       \/ plan.order # None /\ plan.order[1].dir \notin {"ASC", "DESC"}
       \* SELECT * under GROUP BY / HAVING needs the primary key grouped.
       \/ grouped /\ ~\E c \in Range(plan.group_by) :
                         ColDef(TableDef(plan.table)[1], c)[1].primary
    THEN DbErr
    ELSE LET r1 == Filter(rows, conds, params)
             r2 == IF plan.distinct THEN Dedup(r1) ELSE r1
             r3 == IF plan.order # None THEN SortRows(r2, plan.order[1]) ELSE r2
             r4 == IF plan.offset # None THEN Drop(r3, plan.offset[1]) ELSE r3
             r5 == IF plan.limit # None THEN Take(r4, plan.limit[1]) ELSE r4
         IN  DbOk(Project(r5, plan.selects))

\* The result of INSERT INTO table (cols) VALUES (placeholders): the new rows.
DbInsert(rows, plan, params) ==
    IF \/ ~TableExists(plan.table)
       \/ Len(plan.cols) # Len(plan.phs)
       \/ ~PhsMatch(Range(plan.phs), params)
       \/ \E k \in 1..Len(plan.cols) : ~HasCol(plan.table, plan.cols[k])
       \/ \E j, k \in 1..Len(plan.cols) : j # k /\ plan.cols[j] = plan.cols[k]
    THEN DbErr
    ELSE LET schema == TableDef(plan.table)[1]
             At(c) == CHOOSE k \in 1..Len(plan.cols) : plan.cols[k] = c
             listed(c) == \E k \in 1..Len(plan.cols) : plan.cols[k] = c
             row == [c \in Range(ColNames(schema)) |->
                        IF listed(c)
                        THEN ParamCell(params[plan.phs[At(c)]], ColDef(schema, c)[1])
                        ELSE Cell(ColDef(schema, c)[1].sql_type, TRUE, "")]
             new == Append(rows, row)
         IN  IF /\ \A k \in 1..Len(plan.cols) :
                       ParamFits(params[plan.phs[k]], ColDef(schema, plan.cols[k])[1])
                /\ ConstraintsHold(schema, new)
             THEN DbOk(new)
             ELSE DbErr

\* The result of UPDATE table SET col = $i, ... WHERE col = $n: the new rows.
DbUpdate(rows, plan, params) ==
    IF \/ ~TableExists(plan.table)
       \/ Len(plan.sets) = 0
       \/ \E k \in 1..Len(plan.sets) : ~HasCol(plan.table, plan.sets[k].col)
       \/ \E j, k \in 1..Len(plan.sets) : j # k /\ plan.sets[j].col = plan.sets[k].col
       \/ ~CondOk(plan.table, plan.cond, params)
       \/ ~PhsMatch({plan.sets[k].ph : k \in 1..Len(plan.sets)} \cup {plan.cond.ph},
                    params)
    THEN DbErr
    ELSE LET schema == TableDef(plan.table)[1]
             At(c) == CHOOSE k \in 1..Len(plan.sets) : plan.sets[k].col = c
             isset(c) == \E k \in 1..Len(plan.sets) : plan.sets[k].col = c
             upd(r) == [c \in DOMAIN r |->
                          IF isset(c)
                          THEN ParamCell(params[plan.sets[At(c)].ph], ColDef(schema, c)[1])
                          ELSE r[c]]
             new == [i \in 1..Len(rows) |->
                        IF CondHolds(rows[i], plan.cond, params)
                        THEN upd(rows[i]) ELSE rows[i]]
         IN  IF /\ \A k \in 1..Len(plan.sets) :
                       ParamFits(params[plan.sets[k].ph],
                                 ColDef(schema, plan.sets[k].col)[1])
                /\ ConstraintsHold(schema, new)
             THEN DbOk(new)
             ELSE DbErr

RECURSIVE Reject(_, _, _)
Reject(rows, cond, params) ==
    IF Len(rows) = 0 THEN <<>>
    ELSE IF CondHolds(rows[1], cond, params)
         THEN Reject(Tail(rows), cond, params)
         ELSE <<rows[1]>> \o Reject(Tail(rows), cond, params)

\* The result of DELETE FROM table WHERE col = $1: the rows left.
DbDelete(rows, plan, params) ==
    IF \/ ~TableExists(plan.table)
       \/ ~CondOk(plan.table, plan.cond, params)
       \/ ~PhsMatch({plan.cond.ph}, params)
    THEN DbErr
    ELSE DbOk(Reject(rows, plan.cond, params))

----------------------------------------------------------------------------
(* Results of calls: sqlx::Result<..>, or a panic. *)

Ok(vals) == [kind |-> "ok", err |-> "", vals |-> vals]
Err(e) == [kind |-> "err", err |-> e, vals |-> <<>>]
Panic(m) == [kind |-> "panic", err |-> m, vals |-> <<>>]

\* The message of a failed Option::unwrap().
UnwrapNone == "called Option::unwrap() on a None value"

\* What a call did: its result, the rows it left, the statements it sent and
\* the number of identifiers generated so far.
Outcome(r, rows, stmts, ctr) ==
    [res |-> r, rows |-> rows, issued |-> stmts, ctr |-> ctr]

Stmt(sql, params, plan) == [sql |-> sql, params |-> params, plan |-> plan]

\* The number a placeholder text stands for.
MaxPh == 9
PhNum(s) == CHOOSE i \in 0..MaxPh : Ph(i) = s

----------------------------------------------------------------------------
(* Row decoding and deserialization (the same code in orm.rs first, find,  *)
(* get_all, query_builder.rs fetch_all and new_orm.rs Query::get).         *)

\* r.try_get::<Option<X>, _>(col): Ok(None) on NULL, Ok(Some) when the
\* column's type is the one X decodes, Err otherwise.
TryGet(cell, x) ==
    IF cell.isnull THEN "none"
    ELSE IF \/ x = "i64" /\ cell.ty \in {"INT8", "BIGINT"}
            \/ x = "f64" /\ cell.ty \in {"FLOAT8", "DOUBLE PRECISION"}
            \/ x = "bool" /\ cell.ty \in {"BOOL", "BOOLEAN"}
            \/ x = "String" /\ cell.ty \in {"TEXT", "VARCHAR"}
         THEN "some"
         ELSE "err"

\* A column no extraction succeeds on rendered as text instead of null.
DecodeCell_fallback_text(cell) ==
    IF TryGet(cell, "i64") = "some" THEN JNum(cell.v)
    ELSE IF TryGet(cell, "i64") = "none" THEN JNull
    ELSE IF TryGet(cell, "f64") = "some" THEN JNum(cell.v)
    ELSE IF TryGet(cell, "bool") = "some" THEN JBool(cell.v)
    ELSE JStr(cell.v)

DecodeCell(cell) ==
    IF TryGet(cell, "i64") = "some" THEN JNum(cell.v)
    ELSE IF TryGet(cell, "i64") = "none" THEN JNull
    ELSE IF TryGet(cell, "f64") = "some" THEN JNum(cell.v)
    ELSE IF TryGet(cell, "f64") = "none" THEN JNull
    ELSE IF TryGet(cell, "bool") = "some" THEN JBool(cell.v)
    ELSE IF TryGet(cell, "bool") = "none" THEN JNull
    ELSE IF TryGet(cell, "String") = "some" THEN JStr(cell.v)
    ELSE IF TryGet(cell, "String") = "none" THEN JNull
    ELSE JNull

DecodeRow(row) == [c \in DOMAIN row |-> DecodeCell(row[c])]

\* Whether a JSON value deserializes into a field of the Rust type ty.
FieldAccepts(ty, present, jv) ==
    CASE ty = "String" -> present /\ jv.t = "str"
      [] ty = "Option<i64>" ->
             ~present \/ jv.t = "null" \/ (jv.t = "num" /\ ~Contains(jv.v, "."))
      [] OTHER -> FALSE

\* serde_json::from_value::<T>(Value::Object(map)): Some(value) or None on error.
FromValue(obj) ==
    IF \A f \in DOMAIN TFields :
           FieldAccepts(TFields[f], f \in DOMAIN obj,
                        IF f \in DOMAIN obj THEN obj[f] ELSE JNull)
    THEN Some([f \in DOMAIN TFields |-> IF f \in DOMAIN obj THEN obj[f] ELSE JNull])
    ELSE None

RECURSIVE DecodeAll(_)
\* A row that does not deserialize left out of the result.
DecodeAll_skip_failed(rows) ==
    IF Len(rows) = 0 THEN Ok(<<>>)
    ELSE LET obj == FromValue(DecodeRow(rows[1]))
             rest == DecodeAll(Tail(rows))
         IN  IF obj = None THEN rest
             ELSE IF rest.kind = "ok" THEN Ok(<<obj[1]>> \o rest.vals) ELSE rest

\* The decode loop over the rows of a result: all values, or the first error.
DecodeAll(rows) ==
    IF Len(rows) = 0 THEN Ok(<<>>)
    ELSE LET obj == FromValue(DecodeRow(rows[1])) IN
         IF obj = None THEN Err("ColumnDecode")
         ELSE LET rest == DecodeAll(Tail(rows)) IN
              IF rest.kind = "ok" THEN Ok(<<obj[1]>> \o rest.vals) ELSE rest

----------------------------------------------------------------------------
(* orm.rs: OrmStruct *)

\* Uuid::new_v4().to_string(): a value no earlier call produced.
NewUuid(ctr) == "u" \o ToString(ctr + 1)

\* A numbering from $0: what (0..count) would give.
placeholders_zero_based(count) == [i \in 1..count |-> Ph(i - 1)]

placeholders(count) == [i \in 1..count |-> Ph(i)]

\* A value that is neither string, number nor bool bound as empty text.
BindValue_null_as_empty(jv) ==
    CASE jv.t = "str" -> PText(jv.v)
      [] jv.t = "num" -> PText(jv.v)
      [] jv.t = "bool" -> PBool(jv.v)
      [] OTHER -> PText("")

\* The match that binds a value of an INSERT or UPDATE.
BindValue(jv) ==
    CASE jv.t = "str" -> PText(jv.v)
      [] jv.t = "num" -> PText(jv.v)
      [] jv.t = "bool" -> PBool(jv.v)
      [] OTHER -> PNull

\* The loop of insert over schema.columns, from column i on.
RECURSIVE InsertValues(_, _, _, _)
InsertValues(schema, map, i, ctr) ==
    IF i > Len(schema.columns) THEN [values |-> <<>>, ctr |-> ctr]
    ELSE LET c == schema.columns[i]
             gen == c.uuid /\ c.name \notin DOMAIN map
             val == IF gen THEN JStr(NewUuid(ctr))
                    ELSE IF c.name \in DOMAIN map THEN map[c.name] ELSE JNull
             rest == InsertValues(schema, map, i + 1, IF gen THEN ctr + 1 ELSE ctr)
         IN  [values |-> <<val>> \o rest.values, ctr |-> rest.ctr]

InsertStmt(schema, values) ==
    LET cols == ColNames(schema)
        phs == placeholders(Len(cols))
    IN  Stmt("INSERT INTO " \o schema.name \o " (" \o Join(cols, ",")
                 \o ") VALUES (" \o Join(phs, ",") \o ")",
             [k \in 1..Len(values) |-> BindValue(values[k])],
             [kind |-> "insert", table |-> schema.name, cols |-> cols,
              phs |-> [k \in 1..Len(phs) |-> PhNum(phs[k])]])

OrmInsert(table_name, item, rows, ctr) ==
    LET found == FindSchema(table_name) IN
    IF found = None THEN Outcome(Panic("Table schema not found"), rows, <<>>, ctr)
    ELSE LET iv == InsertValues(found[1], item, 1, ctr)
             st == InsertStmt(found[1], iv.values)
             out == DbInsert(rows, st.plan, st.params)
         IN  IF ~pool THEN Outcome(Panic("Database not connected"), rows, <<>>, iv.ctr)
             ELSE IF out.ok THEN Outcome(Ok(<<>>), out.rows, <<st>>, iv.ctr)
             ELSE Outcome(Err("Database"), rows, <<st>>, iv.ctr)

SelectPlan(t, selects, joins, conds, group_by, havings, order, limit, offset, distinct) ==
    [kind |-> "select", table |-> t, selects |-> selects, joins |-> joins,
     conds |-> conds, group_by |-> group_by, havings |-> havings,
     order |-> order, limit |-> limit, offset |-> offset, distinct |-> distinct]

Cond(col, op, ph) == [col |-> col, op |-> op, ph |-> ph]

FirstStmt(schema, column, value) ==
    Stmt("SELECT * FROM " \o schema.name \o " WHERE " \o column \o " = $1 LIMIT 1",
         <<PText(value)>>,
         SelectPlan(schema.name, <<"*">>, <<>>, <<Cond(column, "=", 1)>>, <<>>, <<>>,
                    None, Some(1), None, FALSE))

\* OrmStruct::first: Ok(Option<T>)
OrmFirst(table_name, column, value, rows, ctr) ==
    LET found == FindSchema(table_name) IN
    IF found = None THEN Outcome(Panic("Table schema not found"), rows, <<>>, ctr)
    ELSE LET st == FirstStmt(found[1], column, value)
             out == DbSelect(rows, st.plan, st.params)
         IN  IF ~pool THEN Outcome(Panic("Database not connected"), rows, <<>>, ctr)
             ELSE IF ~out.ok THEN Outcome(Err("Database"), rows, <<st>>, ctr)
             ELSE Outcome(DecodeAll(Take(out.rows, 1)), rows, <<st>>, ctr)

DeleteStmt(schema, column, value) ==
    Stmt("DELETE FROM " \o schema.name \o " WHERE " \o column \o " = $1",
         <<PText(value)>>,
         [kind |-> "delete", table |-> schema.name, cond |-> Cond(column, "=", 1)])

OrmDelete(table_name, column, value, rows, ctr) ==
    LET found == FindSchema(table_name) IN
    IF found = None THEN Outcome(Panic("Table schema not found"), rows, <<>>, ctr)
    ELSE LET st == DeleteStmt(found[1], column, value)
             out == DbDelete(rows, st.plan, st.params)
         IN  IF ~pool THEN Outcome(Panic("Database not connected"), rows, <<>>, ctr)
             ELSE IF ~out.ok THEN Outcome(Err("Database"), rows, <<st>>, ctr)
             ELSE Outcome(Ok(<<>>), out.rows, <<st>>, ctr)

----------------------------------------------------------------------------
(* query_builder.rs: QueryBuilder.  The field plan is not in the code: it   *)
(* is the structured form of the clauses accumulated as text.              *)

QbNew(t) ==
    [table |-> t, selects |-> <<"*">>, wheres |-> <<>>, joins |-> <<>>,
     groups |-> <<>>, havings |-> <<>>, limit_clause |-> None,
     offset_clause |-> None, order_clause |-> None, params |-> <<>>,
     plan |-> [conds |-> <<>>, joins |-> <<>>, order |-> None, limit |-> None]]

QbSelect(b, columns) == [b EXCEPT !.selects = columns]

\* The placeholder numbered from zero: the count of parameters so far.
QbWhere_zero_based(b, column, op, value) ==
    LET n == Len(b.params) IN
    [b EXCEPT !.wheres = Append(@, column \o " " \o op \o " " \o Ph(n)),
              !.params = Append(@, value),
              !.plan.conds = Append(@, Cond(column, op, n))]

QbWhere(b, column, op, value) ==
    LET n == Len(b.params) + 1 IN
    [b EXCEPT !.wheres = Append(@, column \o " " \o op \o " " \o Ph(n)),
              !.params = Append(@, value),
              !.plan.conds = Append(@, Cond(column, op, n))]

\* The pattern bound as the caller gave it.
WrapPattern_raw(pattern) == pattern

\* format!("%{}%", pattern)
WrapPattern(pattern) == "%" \o pattern \o "%"

QbLike(b, column, pattern) ==
    LET n == Len(b.params) + 1 IN
    [b EXCEPT !.wheres = Append(@, column \o " LIKE " \o Ph(n)),
              !.params = Append(@, WrapPattern(pattern)),
              !.plan.conds = Append(@, Cond(column, "LIKE", n))]

QbIlike(b, column, pattern) ==
    LET n == Len(b.params) + 1 IN
    [b EXCEPT !.wheres = Append(@, column \o " ILIKE " \o Ph(n)),
              !.params = Append(@, WrapPattern(pattern)),
              !.plan.conds = Append(@, Cond(column, "ILIKE", n))]

QbJoin(b, t, left, right) ==
    [b EXCEPT !.joins = Append(@, "JOIN " \o t \o " ON " \o left \o " = " \o right),
              !.plan.joins = Append(@, t)]

QbLeftJoin(b, t, left, right) ==
    [b EXCEPT !.joins = Append(@, "LEFT JOIN " \o t \o " ON " \o left \o " = " \o right),
              !.plan.joins = Append(@, t)]

QbLimit(b, n) ==
    [b EXCEPT !.limit_clause = Some("LIMIT " \o ToString(n)),
              !.plan.limit = Some(n)]

QbOrderBy(b, column, direction) ==
    [b EXCEPT !.order_clause = Some("ORDER BY " \o column \o " " \o direction),
              !.plan.order = Some([col |-> column, dir |-> direction])]

build_sql(b) ==
    "SELECT " \o Join(b.selects, ",") \o " FROM " \o b.table
    \o (IF b.joins # <<>> THEN " " \o Join(b.joins, " ") ELSE "")
    \o (IF b.wheres # <<>> THEN " WHERE " \o Join(b.wheres, " AND ") ELSE "")
    \o (IF b.groups # <<>> THEN " GROUP BY " \o Join(b.groups, ", ") ELSE "")
    \o (IF b.havings # <<>> THEN " HAVING " \o Join(b.havings, " AND ") ELSE "")
    \o (IF b.order_clause # None THEN " " \o b.order_clause[1] ELSE "")
    \o (IF b.limit_clause # None THEN " " \o b.limit_clause[1] ELSE "")
    \o (IF b.offset_clause # None THEN " " \o b.offset_clause[1] ELSE "")

QbStmt(b) ==
    Stmt(build_sql(b),
         [k \in 1..Len(b.params) |-> PText(b.params[k])],
         SelectPlan(b.table, b.selects, b.plan.joins, b.plan.conds, <<>>, <<>>,
                    b.plan.order, b.plan.limit, None, FALSE))

\* fetch_all: [res, issued]
QbFetchAll(b, rows) ==
    LET st == QbStmt(b)
        out == DbSelect(rows, st.plan, st.params)
    IN  [res |-> IF out.ok THEN DecodeAll(out.rows) ELSE Err("Database"),
         issued |-> <<st>>]

\* fetch_one: all.pop().ok_or(RowNotFound)
QbFetchOne(b, rows) ==
    LET all == QbFetchAll(b, rows) IN
    IF all.res.kind # "ok" THEN all
    ELSE IF Len(all.res.vals) = 0
         THEN [res |-> Err("RowNotFound"), issued |-> all.issued]
         ELSE [res |-> Ok(<<all.res.vals[Len(all.res.vals)]>>), issued |-> all.issued]

----------------------------------------------------------------------------
(* new_orm.rs: Record *)

\* Record::new; the key column is a field of T.
RecordNew(table_name, value, key_column) ==
    [table_name |-> table_name, value |-> value, key_column |-> key_column,
     id |-> value[key_column]]

Records(table_name, values, key_column) ==
    [i \in 1..Len(values) |-> RecordNew(table_name, values[i], key_column)]

\* The loop of Record::update over the payload: sets and values so far.
RECURSIVE UpdateSets(_, _, _)
UpdateSets(map, keys, values) ==
    IF Len(keys) = 0 THEN [sets |-> <<>>, values |-> values, plan |-> <<>>]
    ELSE LET n == Len(values) + 1
             rest == UpdateSets(map, Tail(keys), Append(values, map[keys[1]].v))
         IN  [sets |-> <<keys[1] \o " = " \o Ph(n)>> \o rest.sets,
              values |-> rest.values,
              plan |-> <<[col |-> keys[1], ph |-> n]>> \o rest.plan]

\* The key read from the record's value, not from the snapshot.
RecordUpdateStmt_value_key(r, updates) ==
    LET us == UpdateSets(updates, Keys(updates), <<>>)
        n == Len(us.values) + 1
    IN  Stmt("UPDATE " \o r.table_name \o " SET " \o Join(us.sets, ", ")
                 \o " WHERE " \o r.key_column \o " = " \o Ph(n),
             [k \in 1..Len(us.values) |-> PText(us.values[k])]
                 \o <<PText(r.value[r.key_column].v)>>,
             [kind |-> "update", table |-> r.table_name, sets |-> us.plan,
              cond |-> Cond(r.key_column, "=", n)])

\* The key bound first, before the SET values.
RecordUpdateStmt_key_first(r, updates) ==
    LET us == UpdateSets(updates, Keys(updates), <<>>)
        n == Len(us.values) + 1
    IN  Stmt("UPDATE " \o r.table_name \o " SET " \o Join(us.sets, ", ")
                 \o " WHERE " \o r.key_column \o " = " \o Ph(n),
             <<PText(r.id.v)>> \o [k \in 1..Len(us.values) |-> PText(us.values[k])],
             [kind |-> "update", table |-> r.table_name, sets |-> us.plan,
              cond |-> Cond(r.key_column, "=", n)])

RecordUpdateStmt(r, updates) ==
    LET us == UpdateSets(updates, Keys(updates), <<>>)
        n == Len(us.values) + 1
    IN  Stmt("UPDATE " \o r.table_name \o " SET " \o Join(us.sets, ", ")
                 \o " WHERE " \o r.key_column \o " = " \o Ph(n),
             [k \in 1..Len(us.values) |-> PText(us.values[k])] \o <<PText(r.id.v)>>,
             [kind |-> "update", table |-> r.table_name, sets |-> us.plan,
              cond |-> Cond(r.key_column, "=", n)])

RecordUpdate(r, updates, rows, ctr) ==
    IF \E k \in DOMAIN updates : updates[k].t # "str"
    THEN Outcome(Panic("value must be string"), rows, <<>>, ctr)
    ELSE IF r.id.t # "str"
    THEN Outcome(Panic(UnwrapNone), rows, <<>>, ctr)
    ELSE IF ~pool
    THEN Outcome(Panic(UnwrapNone), rows, <<>>, ctr)
    ELSE LET st == RecordUpdateStmt(r, updates)
             out == DbUpdate(rows, st.plan, st.params)
         IN  IF ~out.ok THEN Outcome(Err("Database"), rows, <<st>>, ctr)
             ELSE LET f == QbFetchOne(QbWhere(QbNew(r.table_name), r.key_column,
                                              "=", r.id.v), out.rows)
                  IN  Outcome(f.res, out.rows, <<st>> \o f.issued, ctr)

RecordDelete(r, rows, ctr) ==
    IF r.key_column \notin DOMAIN r.value
    THEN Outcome(Panic("key field required"), rows, <<>>, ctr)
    ELSE IF r.value[r.key_column].t # "str"
    THEN Outcome(Panic("key must be string"), rows, <<>>, ctr)
    ELSE OrmDelete(r.table_name, r.key_column, r.value[r.key_column].v, rows, ctr)

----------------------------------------------------------------------------
(* new_orm.rs: Table *)

TableNew(name, key_column) == [name |-> name, key_column |-> key_column]

\* Ok(obj.map(|o| Record::new(..)))
WrapRecords(tbl, out) ==
    IF out.res.kind = "ok"
    THEN [out EXCEPT !.res = Ok(Records(tbl.name, out.res.vals, tbl.key_column))]
    ELSE out

\* Only the empty filter rejected; of several keys the first is used.
TableGet_first_key(tbl, filter, rows, ctr) ==
    IF Cardinality(DOMAIN filter) = 0
    THEN Outcome(Panic("Only single-column filter supported"), rows, <<>>, ctr)
    ELSE LET column == Keys(filter)[1]
             value == filter[column]
         IN  IF value.t # "str"
             THEN Outcome(Panic(UnwrapNone), rows, <<>>, ctr)
             ELSE WrapRecords(tbl, OrmFirst(tbl.name, column, value.v, rows, ctr))

TableGet(tbl, filter, rows, ctr) ==
    IF Cardinality(DOMAIN filter) # 1
    THEN Outcome(Panic("Only single-column filter supported"), rows, <<>>, ctr)
    ELSE LET column == CHOOSE k \in DOMAIN filter : TRUE
             value == filter[column]
         IN  IF value.t # "str"
             THEN Outcome(Panic(UnwrapNone),
                          rows, <<>>, ctr)
             ELSE WrapRecords(tbl, OrmFirst(tbl.name, column, value.v, rows, ctr))

TableInsert(tbl, item, rows, ctr) == OrmInsert(tbl.name, item, rows, ctr)

----------------------------------------------------------------------------
(* new_orm.rs: Query *)

QNew(table_name, key_column) ==
    [table_name |-> table_name, key_column |-> key_column, wheres |-> <<>>,
     limit |-> None, offset |-> None, order_by |-> None, distinct |-> FALSE,
     group_by |-> <<>>, havings |-> <<>>]

where_clause(qs, column, op, value) ==
    [qs EXCEPT !.wheres = Append(@, <<column, op, value>>)]

QLimit(qs, n) == [qs EXCEPT !.limit = Some(n)]

QOrderBy(qs, column, direction) == [qs EXCEPT !.order_by = Some(<<column, direction>>)]

QOffset(qs, n) == [qs EXCEPT !.offset = Some(n)]

QDistinct(qs) == [qs EXCEPT !.distinct = TRUE]

QGroupBy(qs, columns) == [qs EXCEPT !.group_by = columns]

having(qs, column, op, value) ==
    [qs EXCEPT !.havings = Append(@, <<column, op, value>>)]

\* The placeholder numbers get() gives the i-th WHERE and the i-th HAVING
\* condition (i from 1): enumerate()'s i + 1 and self.wheres.len() + i + 1.
WherePh(qs, i) == i
\* The HAVING numbering started again from $1.
HavingPh_restart(qs, i) == i
HavingPh(qs, i) == Len(qs.wheres) + i

\* The text of the i-th WHERE and of the i-th HAVING condition.
WhereCond(qs, i) ==
    qs.wheres[i][1] \o " " \o qs.wheres[i][2] \o " " \o Ph(WherePh(qs, i))
HavingCond(qs, i) ==
    qs.havings[i][1] \o " " \o qs.havings[i][2] \o " " \o Ph(HavingPh(qs, i))

\* The WHERE part with the keyword emitted for an empty list too.
WhereText_unconditional(qs) ==
    " WHERE " \o Join([i \in 1..Len(qs.wheres) |-> WhereCond(qs, i)], " AND ")

\* The parts get() appends to "SELECT .. FROM table", each empty when unset.
WhereText(qs) ==
    IF qs.wheres # <<>>
    THEN " WHERE " \o Join([i \in 1..Len(qs.wheres) |-> WhereCond(qs, i)], " AND ")
    ELSE ""

GroupByText(qs) ==
    IF qs.group_by # <<>> THEN " GROUP BY " \o Join(qs.group_by, ", ") ELSE ""

HavingText(qs) ==
    IF qs.havings # <<>>
    THEN " HAVING " \o Join([i \in 1..Len(qs.havings) |-> HavingCond(qs, i)], " AND ")
    ELSE ""

OrderByText(qs) ==
    IF qs.order_by # None
    THEN " ORDER BY " \o qs.order_by[1][1] \o " " \o qs.order_by[1][2]
    ELSE ""

LimitText(qs) ==
    IF qs.limit # None THEN " LIMIT " \o ToString(qs.limit[1]) ELSE ""

\* An OFFSET part also when no offset was set.
OffsetText_always(qs) ==
    " OFFSET " \o (IF qs.offset # None THEN ToString(qs.offset[1]) ELSE "0")

OffsetText(qs) ==
    IF qs.offset # None THEN " OFFSET " \o ToString(qs.offset[1]) ELSE ""

\* The statement get() builds and the values it binds.
QueryStmt(qs) ==
    Stmt((IF qs.distinct THEN "SELECT DISTINCT *" ELSE "SELECT *")
             \o " FROM " \o qs.table_name
             \o WhereText(qs) \o GroupByText(qs) \o HavingText(qs)
             \o OrderByText(qs) \o LimitText(qs) \o OffsetText(qs),
         [i \in 1..Len(qs.wheres) |-> PText(qs.wheres[i][3])]
             \o [i \in 1..Len(qs.havings) |-> PText(qs.havings[i][3])],
         SelectPlan(qs.table_name, <<"*">>, <<>>,
                    [i \in 1..Len(qs.wheres) |->
                        Cond(qs.wheres[i][1], qs.wheres[i][2], WherePh(qs, i))],
                    qs.group_by,
                    [i \in 1..Len(qs.havings) |->
                        Cond(qs.havings[i][1], qs.havings[i][2], HavingPh(qs, i))],
                    IF qs.order_by = None THEN None
                    ELSE Some([col |-> qs.order_by[1][1], dir |-> qs.order_by[1][2]]),
                    qs.limit, qs.offset, qs.distinct))

\* Query::get: Ok(Vec<Record<T>>)
QueryGet(qs, rows, ctr) ==
    LET st == QueryStmt(qs)
        out == DbSelect(rows, st.plan, st.params)
        dec == DecodeAll(out.rows)
    IN  IF ~pool THEN Outcome(Panic("Database not connected"), rows, <<>>, ctr)
        ELSE IF ~out.ok THEN Outcome(Err("Database"), rows, <<st>>, ctr)
        ELSE IF dec.kind # "ok" THEN Outcome(dec, rows, <<st>>, ctr)
        ELSE Outcome(Ok(Records(qs.table_name, dec.vals, qs.key_column)),
                     rows, <<st>>, ctr)

\* An empty result reported as RowNotFound, as first_value does.
QueryFirst_not_found(qs, rows, ctr) ==
    LET out == QueryGet(QLimit(qs, 1), rows, ctr) IN
    IF out.res.kind # "ok" THEN out
    ELSE IF Len(out.res.vals) = 0 THEN [out EXCEPT !.res = Err("RowNotFound")]
    ELSE [out EXCEPT !.res = Ok(Take(out.res.vals, 1))]

\* Query::first: Ok(Option<Record<T>>)
QueryFirst(qs, rows, ctr) ==
    LET out == QueryGet(QLimit(qs, 1), rows, ctr) IN
    IF out.res.kind # "ok" THEN out
    ELSE [out EXCEPT !.res = Ok(Take(out.res.vals, 1))]

\* Query::first_value: Ok(T) or RowNotFound
QueryFirstValue(qs, rows, ctr) ==
    LET out == QueryGet(QLimit(qs, 1), rows, ctr) IN
    IF out.res.kind # "ok" THEN out
    ELSE IF Len(out.res.vals) = 0 THEN [out EXCEPT !.res = Err("RowNotFound")]
    ELSE [out EXCEPT !.res = Ok(<<out.res.vals[1].value>>)]

----------------------------------------------------------------------------
(* The calls the model makes and the inputs it draws. *)

Names == {"Ada", "42"}
Emails == {"a@m", "b@m"}
\* What an item gives for the generated-key field: nothing, "" or a value.
Absent == "<absent>"
IdChoices == {Absent, "", "k1"}
Ages == {JNull, JNum("7")}

MkItem(i, n, e, a) ==
    [k \in (IF i = Absent THEN {} ELSE {"id"}) \cup {"name", "email", "age"} |->
        CASE k = "id" -> JStr(i)
          [] k = "name" -> JStr(n)
          [] k = "email" -> JStr(e)
          [] OTHER -> a]

\* Every shape of the key field and of age under one name, and a second name
\* (text that reads as a number) with a supplied key.
Items ==
    {MkItem(i, "Ada", e, a) : i \in IdChoices, e \in Emails, a \in Ages}
        \cup {MkItem("k1", n, e, JNull) : n \in Names, e \in Emails}

Obj1(k, v) == [x \in {k} |-> v]
Obj2(k1, v1, k2, v2) == [x \in {k1, k2} |-> IF x = k1 THEN v1 ELSE v2]

Filters ==
    {EmptyObj, Obj1("id", JNum("1")), Obj2("email", JStr("a@m"), "name", JStr("Ada"))}
    \cup {Obj1("email", JStr(e)) : e \in Emails}

Payloads ==
    {EmptyObj, Obj1("name", JStr("Bob")), Obj1("email", JStr("b@m"))}

Call(op, arg, self) == [op |-> op, arg |-> arg, self |-> self]

\* The position of the generated-key column among the schema's columns.
KeyIdx(schema) == CHOOSE k \in 1..Len(schema.columns) : schema.columns[k].uuid

LeftEmpty(item) == "id" \notin DOMAIN item \/ item["id"] = JStr("")

\* A call returns: its result, the rows, the statements sent, the generator.
Return(op, arg, self, out) ==
    /\ last' = Call(op, arg, self)
    /\ res' = out.res
    /\ db' = out.rows
    /\ issued' = out.issued
    /\ before' = db
    /\ uuidCtr' = out.ctr

----------------------------------------------------------------------------
(* Actions *)

\* The pool stored whatever connecting returned.
Connect_pool_on_failure ==
    /\ ~pool
    /\ \E success \in BOOLEAN :
           /\ pool' = TRUE
           /\ res' = IF success THEN Ok(<<>>) ELSE Err("Database")
    /\ last' = Call("OrmStruct.connect", EmptyObj, table)
    /\ issued' = <<>>
    /\ before' = db
    /\ UNCHANGED <<inflight, tables, db, uuidCtr, table, q, qb, rec, insLog>>

\* OrmStruct::connect: the pool is kept only when connecting succeeded.
Connect ==
    /\ ~pool
    /\ \E success \in BOOLEAN :
           /\ pool' = success
           /\ res' = IF success THEN Ok(<<>>) ELSE Err("Database")
    /\ last' = Call("OrmStruct.connect", EmptyObj, table)
    /\ issued' = <<>>
    /\ before' = db
    /\ UNCHANGED <<inflight, tables, db, uuidCtr, table, q, qb, rec, insLog>>

\* OrmStruct::migrate: CREATE TABLE IF NOT EXISTS per schema.
Migrate ==
    /\ tables' = IF pool THEN tables \cup Range([i \in 1..Len(Schemas) |-> Schemas[i].name])
                 ELSE tables
    /\ res' = IF pool THEN Ok(<<>>) ELSE Panic("Database not connected")
    /\ last' = Call("OrmStruct.migrate", EmptyObj, table)
    /\ issued' = <<>>
    /\ before' = db
    /\ UNCHANGED <<inflight, pool, db, uuidCtr, table, q, qb, rec, insLog>>

\* Table::insert(&item)
Insert(item) ==
    /\ Len(db) < MaxRows
    /\ Len(insLog) < MaxInserts
    /\ uuidCtr < MaxInserts
    /\ LET out == TableInsert(table, item, db, uuidCtr) IN
       /\ Return("Table.insert", item, table, out)
       /\ insLog' = IF out.issued # <<>> /\ LeftEmpty(item)
                    THEN Append(insLog, out.issued[1].params[KeyIdx(UsersSchema)])
                    ELSE insLog
    /\ UNCHANGED <<inflight, pool, tables, table, q, qb, rec>>

\* Table::get(filter)
TableGetA(filter) ==
    /\ Return("Table.get", filter, table, TableGet(table, filter, db, uuidCtr))
    /\ UNCHANGED <<inflight, pool, tables, table, q, qb, rec, insLog>>

\* Table::query()
TableQuery ==
    /\ q = None
    /\ q' = Some(QNew(table.name, table.key_column))
    /\ last' = Call("Table.query", EmptyObj, table)
    /\ res' = Ok(<<>>)
    /\ issued' = <<>>
    /\ before' = db
    /\ UNCHANGED <<inflight, pool, tables, db, uuidCtr, table, qb, rec, insLog>>

\* A chain call on the Query: the builder moves through the call.
Chain(op, arg, new) ==
    /\ q # None
    /\ q' = Some(new)
    /\ last' = Call(op, arg, q[1])
    /\ res' = Ok(<<>>)
    /\ issued' = <<>>
    /\ before' = db
    /\ UNCHANGED <<inflight, pool, tables, db, uuidCtr, table, qb, rec, insLog>>

\* A terminal call on the Query: it consumes the builder.
Terminal(op, out) ==
    /\ q' = None
    /\ Return(op, EmptyObj, q[1], out)
    /\ UNCHANGED <<inflight, pool, tables, table, qb, rec, insLog>>

\* table.query().where_clause("email", "=", e).first(), one expression of the
\* caller (examples/main.rs).
FirstByEmail(e) ==
    LET qs == where_clause(QNew(table.name, table.key_column), "email", "=", e) IN
    /\ Return("Query.first", EmptyObj, qs, QueryFirst(qs, db, uuidCtr))
    /\ UNCHANGED <<inflight, pool, tables, table, q, qb, rec, insLog>>

\* The caller keeps the record the last call returned.
Hold ==
    /\ last.op \in {"Table.get", "Query.first", "Query.get"}
    /\ res.kind = "ok"
    /\ \E i \in 1..Len(res.vals) : rec' = Some(res.vals[i])
    /\ UNCHANGED <<inflight, pool, tables, db, uuidCtr, table, q, qb, last, res, issued, before, insLog>>

\* Record::update(updates)
RecUpdateA(updates) ==
    /\ rec # None
    /\ Return("Record.update", updates, rec[1], RecordUpdate(rec[1], updates, db, uuidCtr))
    /\ UNCHANGED <<inflight, pool, tables, table, q, qb, rec, insLog>>

\* Record::delete()
RecDeleteA ==
    /\ rec # None
    /\ Return("Record.delete", EmptyObj, rec[1], RecordDelete(rec[1], db, uuidCtr))
    /\ UNCHANGED <<inflight, pool, tables, table, q, qb, rec, insLog>>

----------------------------------------------------------------------------
(* The program: a connection handle, one Table<T> over it, and its callers. *)

Init ==
    /\ pool = FALSE
    /\ tables = {}
    /\ db = <<>>
    /\ uuidCtr = 0
    /\ table \in {TableNew("users", "email"), TableNew("users", "id")}
    /\ q = None
    /\ qb = None
    /\ rec = None
    /\ last = Call("OrmStruct.new", EmptyObj, table)
    /\ res = Ok(<<>>)
    /\ issued = <<>>
    /\ before = <<>>
    /\ insLog = <<>>
    /\ inflight = None

\* The items the callers of the Table / Record scenario insert.
ScenarioItems == {MkItem(i, "Ada", e, JNull) : i \in {"", "k1"}, e \in Emails}

Next ==
    \/ Connect
    \/ Migrate
    \/ \E item \in ScenarioItems : Insert(item)
    \/ \E filter \in Filters : TableGetA(filter)
    \/ \E e \in Emails : FirstByEmail(e)
    \/ Hold
    \/ \E updates \in Payloads : RecUpdateA(updates)
    \/ RecDeleteA

Spec == Init /\ [][Next]_vars

----------------------------------------------------------------------------
(* Inserting and reading back: every item of Items against the schema. *)

NextInsert ==
    \/ Connect
    \/ Migrate
    \/ \E item \in Items : Insert(item)
    \/ \E e \in Emails : TableGetA(Obj1("email", JStr(e)))

SpecInsert == Init /\ [][NextInsert]_vars

----------------------------------------------------------------------------
(* The Query builder of new_orm.rs, call by call, over a table of two rows. *)

\* Two rows as insert stores them: one with a supplied id, one generated.
TwoRows ==
    << [id |-> Cell("TEXT", FALSE, "k1"), name |-> Cell("TEXT", FALSE, "42"),
        email |-> Cell("TEXT", FALSE, "a@m"), age |-> Cell("TEXT", TRUE, "")],
       [id |-> Cell("TEXT", FALSE, "u1"), name |-> Cell("TEXT", FALSE, "Ada"),
        email |-> Cell("TEXT", FALSE, "b@m"), age |-> Cell("TEXT", TRUE, "")] >>

QWheres == {<<"email", "=", "a@m">>, <<"name", "!=", "Ada">>}
QHavings == {<<"name", "=", "Ada">>}
QGroups == {<<"id">>, <<"name">>}
QLimits == {0, 2}
QOffsets == {1}

Triple(tr) == [column |-> tr[1], op |-> tr[2], value |-> tr[3]]

QWhereClause(tr) ==
    /\ q # None
    /\ Len(q[1].wheres) < MaxWheres
    /\ Chain("Query.where_clause", Triple(tr), where_clause(q[1], tr[1], tr[2], tr[3]))

QHaving(tr) ==
    /\ q # None
    /\ Len(q[1].havings) < MaxHavings
    /\ Chain("Query.having", Triple(tr), having(q[1], tr[1], tr[2], tr[3]))

QGroupByA(columns) ==
    /\ q # None
    /\ q[1].group_by = <<>>
    /\ Chain("Query.group_by", [columns |-> columns], QGroupBy(q[1], columns))

QDistinctA ==
    /\ q # None
    /\ ~q[1].distinct
    /\ Chain("Query.distinct", EmptyObj, QDistinct(q[1]))

QLimitA(n) ==
    /\ q # None
    /\ q[1].limit = None
    /\ Chain("Query.limit", [n |-> n], QLimit(q[1], n))

QOffsetA(n) ==
    /\ q # None
    /\ q[1].offset = None
    /\ Chain("Query.offset", [n |-> n], QOffset(q[1], n))

QOrderByA(column, direction) ==
    /\ q # None
    /\ q[1].order_by = None
    /\ Chain("Query.order_by", [column |-> column, direction |-> direction],
             QOrderBy(q[1], column, direction))

QGetA ==
    /\ q # None
    /\ Terminal("Query.get", QueryGet(q[1], db, uuidCtr))

QFirstA ==
    /\ q # None
    /\ Terminal("Query.first", QueryFirst(q[1], db, uuidCtr))

QFirstValueA ==
    /\ q # None
    /\ Terminal("Query.first_value", QueryFirstValue(q[1], db, uuidCtr))

InitQuery ==
    /\ pool = TRUE
    /\ tables = {"users"}
    /\ db = TwoRows
    /\ uuidCtr = 1
    /\ table \in {TableNew("users", "email"), TableNew("posts", "id")}
    /\ q = None
    /\ qb = None
    /\ rec = None
    /\ last = Call("Table.new", EmptyObj, table)
    /\ res = Ok(<<>>)
    /\ issued = <<>>
    /\ before = TwoRows
    /\ insLog = <<>>
    /\ inflight = None

NextQuery ==
    \/ TableQuery
    \/ \E tr \in QWheres : QWhereClause(tr)
    \/ \E tr \in QHavings : QHaving(tr)
    \/ \E columns \in QGroups : QGroupByA(columns)
    \/ QDistinctA
    \/ \E n \in QLimits : QLimitA(n)
    \/ \E n \in QOffsets : QOffsetA(n)
    \/ QOrderByA("name", "DESC")
    \/ QGetA
    \/ QFirstA
    \/ QFirstValueA

SpecQuery == InitQuery /\ [][NextQuery]_vars

----------------------------------------------------------------------------
(* The QueryBuilder of query_builder.rs, call by call, over the same rows. *)

\* OrmStruct::query(table): the pool must be there.
OrmQuery(t) ==
    /\ qb = None
    /\ qb' = IF pool THEN Some(QbNew(t)) ELSE None
    /\ last' = Call("OrmStruct.query", [table |-> t], table)
    /\ res' = IF pool THEN Ok(<<>>) ELSE Panic("DB pool not initialized")
    /\ issued' = <<>>
    /\ before' = db
    /\ UNCHANGED <<inflight, pool, tables, db, uuidCtr, table, q, rec, insLog>>

\* A chain call on the QueryBuilder.
QbChain(op, arg, new) ==
    /\ qb # None
    /\ qb' = Some(new)
    /\ last' = Call(op, arg, qb[1])
    /\ res' = Ok(<<>>)
    /\ issued' = <<>>
    /\ before' = db
    /\ UNCHANGED <<inflight, pool, tables, db, uuidCtr, table, q, rec, insLog>>

QbSelectA(columns) ==
    /\ qb # None
    /\ qb[1].selects = <<"*">>
    /\ QbChain("QueryBuilder.select", [columns |-> columns], QbSelect(qb[1], columns))

QbWhereA(c, op, v) ==
    /\ qb # None
    /\ Len(qb[1].wheres) < MaxQbWheres
    /\ QbChain("QueryBuilder.where", [column |-> c, op |-> op, value |-> v],
               QbWhere(qb[1], c, op, v))

QbLikeA(c, p) ==
    /\ qb # None
    /\ Len(qb[1].wheres) < MaxQbWheres
    /\ QbChain("QueryBuilder.like", [column |-> c, pattern |-> p], QbLike(qb[1], c, p))

QbIlikeA(c, p) ==
    /\ qb # None
    /\ Len(qb[1].wheres) < MaxQbWheres
    /\ QbChain("QueryBuilder.ilike", [column |-> c, pattern |-> p], QbIlike(qb[1], c, p))

QbJoinA(t, l, r) ==
    /\ qb # None
    /\ Len(qb[1].joins) < MaxQbJoins
    /\ QbChain("QueryBuilder.join", [table |-> t, left |-> l, right |-> r],
               QbJoin(qb[1], t, l, r))

QbLeftJoinA(t, l, r) ==
    /\ qb # None
    /\ Len(qb[1].joins) < MaxQbJoins
    /\ QbChain("QueryBuilder.left_join", [table |-> t, left |-> l, right |-> r],
               QbLeftJoin(qb[1], t, l, r))

QbLimitA(n) ==
    /\ qb # None
    /\ qb[1].limit_clause = None
    /\ QbChain("QueryBuilder.limit", [n |-> n], QbLimit(qb[1], n))

QbOrderByA(column, direction) ==
    /\ qb # None
    /\ qb[1].order_clause = None
    /\ QbChain("QueryBuilder.order_by", [column |-> column, direction |-> direction],
               QbOrderBy(qb[1], column, direction))

\* fetch_all(&self) and fetch_one(&self) borrow the builder.
QbTerminal(op, out) ==
    /\ last' = Call(op, EmptyObj, qb[1])
    /\ res' = out.res
    /\ issued' = out.issued
    /\ before' = db
    /\ UNCHANGED <<inflight, pool, tables, db, uuidCtr, table, q, qb, rec, insLog>>

QbFetchAllA ==
    /\ qb # None
    /\ QbTerminal("QueryBuilder.fetch_all", QbFetchAll(qb[1], db))

QbFetchOneA ==
    /\ qb # None
    /\ QbTerminal("QueryBuilder.fetch_one", QbFetchOne(qb[1], db))

\* The caller drops the builder.
QbDrop ==
    /\ qb # None
    /\ qb' = None
    /\ UNCHANGED <<inflight, pool, tables, db, uuidCtr, table, q, rec, last, res, issued,
                   before, insLog>>

Patterns == {"Ad", "d"}

NextQB ==
    \/ OrmQuery("users")
    \/ QbSelectA(<<"name", "email">>)
    \/ QbWhereA("email", "=", "b@m")
    \/ \E p \in Patterns : QbLikeA("name", p)
    \/ \E p \in Patterns : QbIlikeA("name", p)
    \/ QbJoinA("posts", "users.id", "posts.user_d")
    \/ QbLeftJoinA("posts", "users.id", "posts.user_d")
    \/ QbLimitA(1)
    \/ QbOrderByA("name", "DESC")
    \/ QbFetchAllA
    \/ QbFetchOneA
    \/ QbDrop

SpecQB == InitQuery /\ [][NextQB]_vars

----------------------------------------------------------------------------
(* Properties of Table and Record (Spec) *)

\* C4: Table.get with a filter object of zero keys or of two or more keys
\* fails with the precondition panic and sends no statement; the rows and the
\* Table handle are as before the call.
C4_GetRejectsOtherThanOneKey ==
    (last.op = "Table.get" /\ Cardinality(DOMAIN last.arg) # 1)
        => /\ res = Panic("Only single-column filter supported")
           /\ issued = <<>>
           /\ db = before
           /\ table = last.self

C4_Witness ==
    /\ last.op = "Table.get"
    /\ Cardinality(DOMAIN last.arg) = 2
    /\ res.kind = "panic"
    /\ pool
    /\ \E i \in 1..Len(db) : db[i]["email"].v = last.arg["email"].v

\* The table holds the row the record was read from.
HoldsRowOf(r, rows) ==
    \E i \in 1..Len(rows) : FromValue(DecodeRow(rows[i])) = Some(r.value)

\* Table.get({"email": e}) on the current state.
GetByEmail(e) == TableGet(table, Obj1("email", JStr(e)), db, uuidCtr).res

\* C9: with the record's row in the table, after record.update({"name": n})
\* succeeds Table.get({"email": e}) returns a record whose name is n, and
\* after record.delete() succeeds Table.get({"email": e}) returns none, e being
\* the record's email.
C9_RecordWritesVisible ==
    (/\ last.op \in {"Record.update", "Record.delete"}
     /\ res.kind = "ok"
     /\ HoldsRowOf(last.self, before))
        => LET g == GetByEmail(last.self.value["email"].v) IN
           /\ (last.op = "Record.update" /\ DOMAIN last.arg = {"name"})
                 => /\ g.kind = "ok"
                    /\ Len(g.vals) = 1
                    /\ g.vals[1].value["name"] = last.arg["name"]
           /\ last.op = "Record.delete" => g = Ok(<<>>)

\* A record read back after an update to "Bob" has been deleted, and its
\* email is gone from the table.
C9_Witness ==
    /\ last.op = "Record.delete"
    /\ res.kind = "ok"
    /\ last.self.value["name"] = JStr("Bob")
    /\ Len(issued) = 1
    /\ \A i \in 1..Len(db) : db[i]["email"].v # last.self.value["email"].v
    /\ db # <<>>

----------------------------------------------------------------------------
(* Properties of insert (SpecInsert) *)

\* The row an insert that succeeded has stored.
Stored == db[Len(db)]

\* C6: an insert whose item leaves the generated-key column absent or empty
\* stores a generated non-empty identifier there; an item that supplies a
\* non-empty value keeps it.
C6_GeneratedKeyWhenEmpty ==
    (last.op = "Table.insert" /\ res.kind = "ok")
        => /\ LeftEmpty(last.arg)
                 => ~Stored["id"].isnull /\ Stored["id"].v # ""
           /\ ~LeftEmpty(last.arg) => Stored["id"].v = last.arg["id"].v

C8_RoundTrip ==
    (last.op = "Table.insert" /\ res.kind = "ok")
        => LET rd == OrmFirst(table.name, "email", last.arg["email"].v, db, uuidCtr).res
           IN  /\ rd.kind = "ok"
               /\ Len(rd.vals) = 1
               /\ \A k \in 1..Len(UsersSchema.columns) :
                      LET c == UsersSchema.columns[k] IN
                      ~c.uuid => rd.vals[1][c.name] = last.arg[c.name]

\* C10: the INSERT statement lists the schema's columns in schema order with
\* the placeholders $1..$n, and binds n values, the k-th being the value of
\* the k-th column: the item's, a generated identifier, or NULL.
C10_InsertStatement ==
    (last.op = "Table.insert" /\ issued # <<>>)
        => LET st == issued[1]
               cols == UsersSchema.columns
           IN  /\ Len(issued) = 1
               /\ st.sql = "INSERT INTO users (id,name,email,age) VALUES ($1,$2,$3,$4)"
               /\ Len(st.params) = Len(cols)
               /\ \A k \in 1..Len(cols) :
                      IF cols[k].name \in DOMAIN last.arg
                      THEN LET jv == last.arg[cols[k].name] IN
                           /\ jv.t \in {"str", "num"} => st.params[k] = PText(jv.v)
                           /\ jv.t = "null" => st.params[k] = PNull
                      ELSE IF cols[k].uuid
                           THEN st.params[k].t = "text" /\ st.params[k].v # ""
                           ELSE st.params[k] = PNull
               /\ res.kind = "ok"
                      => \A k \in 1..Len(cols) :
                             Stored[cols[k].name].isnull = (st.params[k].t = "null")
                             /\ Stored[cols[k].name].v = st.params[k].v

C10_Witness ==
    /\ last.op = "Table.insert"
    /\ res.kind = "ok"
    /\ "id" \notin DOMAIN last.arg
    /\ last.arg["age"] = JNum("7")
    /\ Len(db) = 2

----------------------------------------------------------------------------
(* Properties of the Query builder (SpecQuery) *)

\* The builder as Table.query() returns it: no clause accumulated.
NoClauses(qs) ==
    /\ qs.wheres = <<>> /\ qs.havings = <<>> /\ qs.group_by = <<>>
    /\ qs.limit = None /\ qs.offset = None /\ qs.order_by = None
    /\ ~qs.distinct

\* C1: get() on a Query on which no chain method was called sends exactly
\* SELECT * FROM T, T the table's name, with no bound parameter.
C1_BareSelect ==
    (last.op = "Query.get" /\ NoClauses(last.self))
        => /\ Len(issued) = 1
           /\ issued[1].sql = "SELECT * FROM " \o table.name
           /\ issued[1].params = <<>>
           /\ \A kw \in {"DISTINCT", "WHERE", "GROUP BY", "HAVING", "ORDER BY",
                         "LIMIT", "OFFSET"} : ~Contains(issued[1].sql, kw)

C1_Witness ==
    /\ last.op = "Query.get"
    /\ NoClauses(last.self)
    /\ res.kind = "ok"
    /\ Len(res.vals) = 2

QueryTerminals == {"Query.get", "Query.first", "Query.first_value"}

\* C2: in the statement a terminal call sends, the i-th WHERE condition uses
\* $i, the j-th HAVING condition uses $(w+j), w the number of WHERE clauses,
\* and the bound values are the WHERE values then the HAVING values, in call
\* order: position k holds the value of the condition that names $k.
C2_PlaceholdersContinuous ==
    (last.op \in QueryTerminals /\ issued # <<>>)
        => LET st == issued[1]
               qs == last.self
               w == Len(qs.wheres)
               h == Len(qs.havings)
               wtext(i) == qs.wheres[i][1] \o " " \o qs.wheres[i][2] \o " $" \o ToString(i)
               htext(j) == qs.havings[j][1] \o " " \o qs.havings[j][2]
                               \o " $" \o ToString(w + j)
           IN  /\ Len(st.params) = w + h
               /\ \A i \in 1..w :
                      /\ st.plan.conds[i].ph = i
                      /\ st.params[i] = PText(qs.wheres[i][3])
               /\ \A j \in 1..h :
                      /\ st.plan.havings[j].ph = w + j
                      /\ st.params[w + j] = PText(qs.havings[j][3])
               /\ w > 0 => Contains(st.sql, " WHERE "
                               \o Join([i \in 1..w |-> wtext(i)], " AND "))
               /\ h > 0 => Contains(st.sql, " HAVING "
                               \o Join([j \in 1..h |-> htext(j)], " AND "))

\* Two WHERE clauses and a HAVING clause: the HAVING placeholder is $3.
C2_Witness ==
    /\ last.op \in QueryTerminals
    /\ Len(last.self.wheres) = 2
    /\ Len(last.self.havings) = 1
    /\ Len(issued) = 1
    /\ Contains(issued[1].sql, " HAVING name = $3")

\* The rows the clauses of qs select, whatever its LIMIT.
Selected(qs) ==
    LET st == QueryStmt([qs EXCEPT !.limit = None]) IN
    DbSelect(db, st.plan, st.params)

\* C5: when the clauses select no row, first() returns Ok(None) and
\* first_value() fails with RowNotFound; when they select rows, first()
\* returns the first of them as a record, first_value() its value, and
\* first_value() does not fail with RowNotFound.
C5_FirstAndFirstValue ==
    (last.op \in {"Query.first", "Query.first_value"} /\ Selected(last.self).ok)
        => LET rows == Selected(last.self).rows
               qs == last.self
           IN  /\ (rows = <<>> /\ last.op = "Query.first") => res = Ok(None)
               /\ (rows = <<>> /\ last.op = "Query.first_value")
                      => res = Err("RowNotFound")
               /\ rows # <<>> =>
                      LET v == FromValue(DecodeRow(rows[1])) IN
                      /\ res.err # "RowNotFound"
                      /\ (v # None /\ last.op = "Query.first")
                             => res = Ok(<<RecordNew(qs.table_name, v[1], qs.key_column)>>)
                      /\ (v # None /\ last.op = "Query.first_value")
                             => res = Ok(<<v[1]>>)

C5_Witness ==
    /\ last.op = "Query.first_value"
    /\ res = Err("RowNotFound")
    /\ Len(last.self.wheres) = 2
    /\ Len(issued) = 1
    /\ db # <<>>

----------------------------------------------------------------------------
(* Properties of the QueryBuilder (SpecQB) *)

\* C3: like(col, p) and ilike(col, p) append one parameter, "%" + p + "%" and
\* never p itself, and one condition col LIKE $k / col ILIKE $k, k the
\* position of that parameter.
C3_LikeWrapsPattern ==
    (last.op \in {"QueryBuilder.like", "QueryBuilder.ilike"} /\ qb # None)
        => LET b == last.self
               kw == IF last.op = "QueryBuilder.like" THEN " LIKE $" ELSE " ILIKE $"
               k == Len(qb[1].params)
           IN  /\ qb[1].params = Append(b.params, "%" \o last.arg.pattern \o "%")
               /\ qb[1].params[k] # last.arg.pattern
               /\ qb[1].wheres = Append(b.wheres, last.arg.column \o kw \o ToString(k))

C3_Witness ==
    /\ last.op = "QueryBuilder.ilike"
    /\ qb # None
    /\ Len(last.self.params) = 1
    /\ last.self.joins # <<>>
    /\ qb[1].params[2] = "%Ad%"

----------------------------------------------------------------------------
(* Inserting items whose keys differ from the schema's columns. *)

WithKey(obj, k, v) == [x \in DOMAIN obj \cup {k} |-> IF x = k THEN v ELSE obj[x]]
Without(obj, k) == [x \in DOMAIN obj \ {k} |-> obj[x]]

\* Items that lack a column's key, carry a key that is no column, or both.
KeyItems ==
    LET base == {MkItem(i, "Ada", e, JNull) : i \in IdChoices, e \in Emails}
        nick(it) == WithKey(it, "nick", JStr("ace"))
    IN  {Without(it, "age") : it \in base}
            \cup {nick(it) : it \in base}
            \cup {Without(nick(it), "name") : it \in base}

NextInsertKeys ==
    \/ Connect
    \/ Migrate
    \/ \E item \in KeyItems : Insert(item)
    \/ \E e \in Emails : TableGetA(Obj1("email", JStr(e)))

SpecInsertKeys == Init /\ [][NextInsertKeys]_vars

\* C11: in the INSERT statement a key of the item that is no schema column
\* gives no column and no bound value, and a schema column without a key in
\* the item is bound as NULL, or, when it is the generated-key column, to a
\* generated identifier.
C11_KeysAgainstColumns ==
    (last.op = "Table.insert" /\ issued # <<>>)
        => LET st == issued[1]
               item == last.arg
               cols == UsersSchema.columns
               extra == DOMAIN item \ Range(ColNames(UsersSchema))
           IN  /\ st.plan.cols = ColNames(UsersSchema)
               /\ Len(st.params) = Len(cols)
               /\ \A k \in extra :
                      /\ ~Contains(st.sql, k)
                      /\ \A i \in 1..Len(st.params) : st.params[i] # PText(item[k].v)
               /\ \A i \in 1..Len(cols) :
                      cols[i].name \notin DOMAIN item
                          => IF cols[i].uuid
                             THEN st.params[i] \in {PText(NewUuid(n)) : n \in 0..MaxInserts}
                             ELSE st.params[i] = PNull

\* An item with a key that is no column and without the keys of id and age.
C11_Witness ==
    /\ last.op = "Table.insert"
    /\ res.kind = "ok"
    /\ DOMAIN last.arg = {"name", "email"}
    /\ Stored["age"].isnull
    /\ Stored["id"].v = NewUuid(0)

----------------------------------------------------------------------------
(* orm.rs: OrmStruct::update *)

\* The loop of update over schema.columns, from column i on: an assignment
\* and a bound value for each column that is a key of the item.
RECURSIVE OrmUpdateSets(_, _, _, _)
OrmUpdateSets(schema, map, i, values) ==
    IF i > Len(schema.columns) THEN [sets |-> <<>>, values |-> values, plan |-> <<>>]
    ELSE LET c == schema.columns[i] IN
         IF c.name \in DOMAIN map
         THEN LET n == Len(values) + 1
                  rest == OrmUpdateSets(schema, map, i + 1, Append(values, map[c.name]))
              IN  [sets |-> <<c.name \o " = " \o Ph(n)>> \o rest.sets,
                   values |-> rest.values,
                   plan |-> <<[col |-> c.name, ph |-> n]>> \o rest.plan]
         ELSE OrmUpdateSets(schema, map, i + 1, values)

\* Every schema column assigned, a column absent from the item to NULL.
OrmUpdateStmt_all_columns(schema, column, value, map) ==
    LET full == [c \in Range(ColNames(schema)) |->
                    IF c \in DOMAIN map THEN map[c] ELSE JNull]
        us == OrmUpdateSets(schema, full, 1, <<>>)
        n == Len(us.values) + 1
    IN  Stmt("UPDATE " \o schema.name \o " SET " \o Join(us.sets, ", ")
                 \o " WHERE " \o column \o " = " \o Ph(n),
             [k \in 1..Len(us.values) |-> BindValue(us.values[k])] \o <<PText(value)>>,
             [kind |-> "update", table |-> schema.name, sets |-> us.plan,
              cond |-> Cond(column, "=", n)])

OrmUpdateStmt(schema, column, value, map) ==
    LET us == OrmUpdateSets(schema, map, 1, <<>>)
        n == Len(us.values) + 1
    IN  Stmt("UPDATE " \o schema.name \o " SET " \o Join(us.sets, ", ")
                 \o " WHERE " \o column \o " = " \o Ph(n),
             [k \in 1..Len(us.values) |-> BindValue(us.values[k])] \o <<PText(value)>>,
             [kind |-> "update", table |-> schema.name, sets |-> us.plan,
              cond |-> Cond(column, "=", n)])

OrmUpdate(table_name, column, value, item, rows, ctr) ==
    LET found == FindSchema(table_name) IN
    IF found = None THEN Outcome(Panic("Table schema not found"), rows, <<>>, ctr)
    ELSE LET st == OrmUpdateStmt(found[1], column, value, item)
             out == DbUpdate(rows, st.plan, st.params)
         IN  IF ~pool THEN Outcome(Panic("Database not connected"), rows, <<>>, ctr)
             ELSE IF ~out.ok THEN Outcome(Err("Database"), rows, <<st>>, ctr)
             ELSE Outcome(Ok(<<>>), out.rows, <<st>>, ctr)

----------------------------------------------------------------------------
(* Updating and deleting, through the handle and through a Record the caller *)
(* holds and whose public value it may assign to.                           *)

\* orm.update(table, column, value, &item)
OrmUpdateA(column, value, item) ==
    /\ Return("OrmStruct.update", [column |-> column, value |-> value, item |-> item],
              table, OrmUpdate(table.name, column, value, item, db, uuidCtr))
    /\ UNCHANGED <<inflight, pool, tables, table, q, qb, rec, insLog>>

\* record.value.<key field> = v: value is a public field of Record.
SetValue(v) ==
    /\ rec # None
    /\ rec[1].value[rec[1].key_column] # JStr(v)
    /\ rec' = Some([rec[1] EXCEPT !.value[rec[1].key_column] = JStr(v)])
    /\ UNCHANGED <<inflight, pool, tables, db, uuidCtr, table, q, qb, last, res, issued,
                   before, insLog>>

UpdPayloads == Payloads \cup {Obj2("name", JStr("Bob"), "email", JStr("c@m"))}

UpdItems ==
    {EmptyObj, Obj1("name", JStr("Eve")), Obj2("name", JStr("Eve"), "age", JNum("7")),
     Obj2("nick", JStr("ace"), "age", JNull)}

InitUpdate ==
    /\ pool = TRUE
    /\ tables = {"users"}
    /\ db = TwoRows
    /\ uuidCtr = 1
    /\ table \in {TableNew("users", "email"), TableNew("users", "id")}
    /\ q = None
    /\ qb = None
    /\ rec = None
    /\ last = Call("Table.new", EmptyObj, table)
    /\ res = Ok(<<>>)
    /\ issued = <<>>
    /\ before = TwoRows
    /\ insLog = <<>>
    /\ inflight = None

NextUpdate ==
    \/ \E e \in Emails : TableGetA(Obj1("email", JStr(e)))
    \/ Hold
    \/ SetValue("b@m")
    \/ \E updates \in UpdPayloads : RecUpdateA(updates)
    \/ RecDeleteA
    \/ \E item \in UpdItems : OrmUpdateA("email", "a@m", item)

SpecUpdate == InitUpdate /\ [][NextUpdate]_vars

----------------------------------------------------------------------------
(* Properties of update and delete (SpecUpdate) *)

\* C12: the UPDATE statement of OrmStruct.update and of Record.update has one
\* assignment col = $i per column present in the payload, numbered $1..$m in
\* order, none for an absent column, the condition WHERE key = $(m+1), and
\* m+1 bound values, the last being the key value.
C12_UpdateStatement ==
    (last.op \in {"OrmStruct.update", "Record.update"} /\ issued # <<>>)
        => LET st == issued[1]
               byOrm == last.op = "OrmStruct.update"
               payload == IF byOrm THEN last.arg.item ELSE last.arg
               settable == IF byOrm
                           THEN DOMAIN payload \cap Range(ColNames(UsersSchema))
                           ELSE DOMAIN payload
               key == IF byOrm THEN last.arg.column ELSE last.self.key_column
               keyval == IF byOrm THEN last.arg.value ELSE last.self.id.v
               tname == IF byOrm THEN last.self.name ELSE last.self.table_name
               m == Cardinality(settable)
               sets == st.plan.sets
           IN  /\ Len(sets) = m
               /\ {sets[i].col : i \in 1..m} = settable
               /\ \A i \in 1..m :
                      /\ sets[i].ph = i
                      /\ Contains(st.sql, sets[i].col \o " = $" \o ToString(i))
                      /\ payload[sets[i].col].t \in {"str", "num"}
                             => st.params[i] = PText(payload[sets[i].col].v)
                      /\ payload[sets[i].col].t = "null" => st.params[i] = PNull
               /\ \A c \in Range(ColNames(UsersSchema)) \ settable :
                      ~Contains(st.sql, c \o " = $")
                          \/ (c = key /\ ~Contains(st.sql, c \o " = $" \o ToString(m)))
               /\ SubSeq(st.sql, 1, Len("UPDATE " \o tname \o " SET "))
                      = "UPDATE " \o tname \o " SET "
               /\ Contains(st.sql, " WHERE " \o key \o " = $" \o ToString(m + 1))
               /\ st.plan.cond = Cond(key, "=", m + 1)
               /\ Len(st.params) = m + 1
               /\ st.params[m + 1] = PText(keyval)

\* OrmStruct.update with two settable columns, one of them a number.
C12_Witness ==
    /\ last.op = "OrmStruct.update"
    /\ DOMAIN last.arg.item = {"name", "age"}
    /\ res.kind = "ok"
    /\ Len(issued) = 1
    /\ issued[1].sql = "UPDATE users SET name = $1, age = $2 WHERE email = $3"
    /\ \E i \in 1..Len(db) : db[i]["name"].v = "Eve" /\ db[i]["age"].v = "7"

\* What Record.update sent and returned, against the record it was called on:
\* the UPDATE's condition and the re-fetch both bind the snapshotted key, and
\* once the key column itself was changed the re-fetch finds no row.
UpdateUsesSnapshot ==
    (last.op = "Record.update" /\ issued # <<>>)
        => LET r == last.self
               st == issued[1]
           IN  /\ st.plan.cond.col = r.key_column
               /\ st.params[Len(st.params)] = PText(r.id.v)
               /\ Len(issued) = 2
                      => /\ issued[2].sql = "SELECT * FROM " \o r.table_name
                                \o " WHERE " \o r.key_column \o " = $1"
                         /\ issued[2].params = <<PText(r.id.v)>>
                         /\ (r.key_column \in DOMAIN last.arg
                                /\ last.arg[r.key_column] # r.id)
                                => res = Err("RowNotFound")

\* A step that is a call of Record.update leaves the Record as it was.
UpdateKeepsRecord ==
    (/\ last'.op = "Record.update"
     /\ <<last, res, issued, before, db>>' # <<last, res, issued, before, db>>)
        => /\ rec' = rec
           /\ last'.self = rec[1]

\* C13: Record.update binds the key snapshotted at construction in the UPDATE's
\* WHERE and in the re-fetch, and leaves the Record (value, key column,
\* snapshot) unchanged, whether it succeeds or fails; after an update of the
\* key column the re-fetch still targets the old key.
C13_UpdateSnapshotKey == []UpdateUsesSnapshot /\ [][UpdateKeepsRecord]_vars

\* An update that changed the key column, on a record whose value the caller
\* had assigned to: the re-fetch by the old key finds nothing.
C13_Witness ==
    /\ last.op = "Record.update"
    /\ last.self.key_column = "email"
    /\ last.arg = Obj1("email", JStr("b@m"))
    /\ Len(issued) = 2
    /\ res = Err("RowNotFound")
    /\ rec # None
    /\ rec[1].id = JStr("a@m")
    /\ \A i \in 1..Len(db) : db[i]["email"].v # "a@m"

\* C14: Record.delete sends DELETE FROM <table> WHERE <key column> = $1 and
\* binds the key value snapshotted at the Record's construction, also after
\* the caller assigned another key-field value to the Record's value.
C14_DeleteUsesSnapshot ==
    (last.op = "Record.delete" /\ issued # <<>>)
        => /\ Len(issued) = 1
           /\ issued[1].sql = "DELETE FROM " \o last.self.table_name
                  \o " WHERE " \o last.self.key_column \o " = $1"
           /\ issued[1].params = <<PText(last.self.id.v)>>

----------------------------------------------------------------------------
(* Properties of the QueryBuilder's terminal calls (SpecQB) *)

\* C15: fetch_one fails with RowNotFound exactly when the statement fetch_all
\* executes matches no row; otherwise it returns one decoded value, the first
\* row of that result.
C15_FetchOneFirstRow ==
    last.op = "QueryBuilder.fetch_one"
        => LET all == QbFetchAll(last.self, db).res IN
           /\ (res = Err("RowNotFound")) <=> (all.kind = "ok" /\ all.vals = <<>>)
           /\ (all.kind = "ok" /\ all.vals # <<>>) => res = Ok(<<all.vals[1]>>)

----------------------------------------------------------------------------
(* Both builders, one alive at a time: the caller builds and runs a Query or *)
(* a QueryBuilder, then the next one.                                        *)

\* The calls on a QueryBuilder, with one pattern and one kind of LIKE.
NextQBPlain ==
    \/ OrmQuery("users")
    \/ QbSelectA(<<"name", "email">>)
    \/ QbWhereA("email", "=", "b@m")
    \/ QbLikeA("name", "Ad")
    \/ QbJoinA("posts", "users.id", "posts.user_d")
    \/ QbLeftJoinA("posts", "users.id", "posts.user_d")
    \/ QbLimitA(1)
    \/ QbOrderByA("name", "DESC")
    \/ QbFetchAllA
    \/ QbFetchOneA
    \/ QbDrop

NextBuilders ==
    \/ qb = None /\ NextQuery
    \/ q = None /\ NextQBPlain

SpecBuilders == InitQuery /\ [][NextBuilders]_vars

BuilderTerminals ==
    QueryTerminals \cup {"QueryBuilder.fetch_all", "QueryBuilder.fetch_one"}

BuilderChainCalls ==
    {"Query.where_clause", "Query.limit", "Query.order_by", "Query.offset",
     "Query.distinct", "Query.group_by", "Query.having",
     "QueryBuilder.select", "QueryBuilder.where", "QueryBuilder.like",
     "QueryBuilder.ilike", "QueryBuilder.join", "QueryBuilder.left_join",
     "QueryBuilder.limit", "QueryBuilder.order_by"}

\* C16: after a terminal call on a builder, the next call is no chain call and
\* no terminal call: a builder must be created first, so that each builder
\* instance executes at most one terminal operation.
C16_OneTerminalPerBuilder ==
    [][(last.op \in BuilderTerminals /\ last' # last)
           => last'.op \notin BuilderTerminals \cup BuilderChainCalls]_vars

\* The place of the first occurrence of sub in s, 0 when there is none.
Pos(s, sub) ==
    LET hits == {i \in 1..(Len(s) - Len(sub) + 1) : SubSeq(s, i, i + Len(sub) - 1) = sub}
    IN  IF hits = {} THEN 0 ELSE CHOOSE i \in hits : \A j \in hits : i <= j

\* The parts of a SELECT in the order the claim fixes, each with whether the
\* builder a terminal call ran on had accumulated it.
SelectParts(op, b) ==
    IF op \in QueryTerminals
    THEN << [kw |-> "SELECT DISTINCT ", on |-> b.distinct],
            [kw |-> " FROM ", on |-> TRUE],
            [kw |-> " JOIN ", on |-> FALSE],
            [kw |-> " WHERE ", on |-> b.wheres # <<>>],
            [kw |-> " GROUP BY ", on |-> b.group_by # <<>>],
            [kw |-> " HAVING ", on |-> b.havings # <<>>],
            [kw |-> " ORDER BY ", on |-> b.order_by # None],
            [kw |-> " LIMIT ", on |-> b.limit # None \/ op # "Query.get"],
            [kw |-> " OFFSET ", on |-> b.offset # None] >>
    ELSE << [kw |-> "SELECT DISTINCT ", on |-> FALSE],
            [kw |-> " FROM ", on |-> TRUE],
            [kw |-> " JOIN ", on |-> b.joins # <<>>],
            [kw |-> " WHERE ", on |-> b.wheres # <<>>],
            [kw |-> " GROUP BY ", on |-> b.groups # <<>>],
            [kw |-> " HAVING ", on |-> b.havings # <<>>],
            [kw |-> " ORDER BY ", on |-> b.order_clause # None],
            [kw |-> " LIMIT ", on |-> b.limit_clause # None],
            [kw |-> " OFFSET ", on |-> b.offset_clause # None] >>

\* C17: whatever the order of the chain calls, the SELECT a terminal call
\* sends has its parts in the order [DISTINCT], columns, FROM table, JOINs,
\* WHERE, GROUP BY, HAVING, ORDER BY, LIMIT, OFFSET, and the keyword of a
\* part that was not accumulated does not appear in the text.
C17_PartsInFixedOrder ==
    (last.op \in BuilderTerminals /\ issued # <<>>)
        => LET sql == issued[1].sql
               parts == SelectParts(last.op, last.self)
               at == [i \in 1..Len(parts) |-> Pos(sql, parts[i].kw)]
           IN  /\ SubSeq(sql, 1, 7) = "SELECT "
               /\ \A i \in 1..Len(parts) : (at[i] > 0) <=> parts[i].on
               /\ \A i, j \in 1..Len(parts) :
                      (i < j /\ parts[i].on /\ parts[j].on) => at[i] < at[j]

\* A QueryBuilder on which a join, a condition, an order and a limit were set.
C17_Witness ==
    /\ last.op = "QueryBuilder.fetch_all"
    /\ Len(issued) = 1
    /\ issued[1].sql =
           "SELECT * FROM users JOIN posts ON users.id = posts.user_d WHERE name LIKE $1 ORDER BY name DESC LIMIT 1"

----------------------------------------------------------------------------
(* orm.rs: OrmStruct::find and OrmStruct::get_all *)

FindStmt(schema, column, filter) ==
    Stmt("SELECT * FROM " \o schema.name \o " WHERE " \o column \o " = $1",
         <<PText(filter)>>,
         SelectPlan(schema.name, <<"*">>, <<>>, <<Cond(column, "=", 1)>>, <<>>, <<>>,
                    None, None, None, FALSE))

\* OrmStruct::find: Ok(Vec<T>)
OrmFind(table_name, column, filter, rows, ctr) ==
    LET found == FindSchema(table_name) IN
    IF found = None THEN Outcome(Panic("Table schema not found"), rows, <<>>, ctr)
    ELSE LET st == FindStmt(found[1], column, filter)
             out == DbSelect(rows, st.plan, st.params)
         IN  IF ~pool THEN Outcome(Panic("Database not connected"), rows, <<>>, ctr)
             ELSE IF ~out.ok THEN Outcome(Err("Database"), rows, <<st>>, ctr)
             ELSE Outcome(DecodeAll(out.rows), rows, <<st>>, ctr)

GetAllStmt(schema) ==
    Stmt("SELECT * FROM " \o schema.name, <<>>,
         SelectPlan(schema.name, <<"*">>, <<>>, <<>>, <<>>, <<>>,
                    None, None, None, FALSE))

\* OrmStruct::get_all: Ok(Vec<T>)
OrmGetAll(table_name, rows, ctr) ==
    LET found == FindSchema(table_name) IN
    IF found = None THEN Outcome(Panic("Table schema not found"), rows, <<>>, ctr)
    ELSE LET st == GetAllStmt(found[1])
             out == DbSelect(rows, st.plan, st.params)
         IN  IF ~pool THEN Outcome(Panic("Database not connected"), rows, <<>>, ctr)
             ELSE IF ~out.ok THEN Outcome(Err("Database"), rows, <<st>>, ctr)
             ELSE Outcome(DecodeAll(out.rows), rows, <<st>>, ctr)

----------------------------------------------------------------------------
(* Reading rows whose columns have any type: the table exists before        *)
(* migrate (CREATE TABLE IF NOT EXISTS leaves it alone) and other clients   *)
(* wrote its rows.                                                          *)

\* The age column of a stored row: a type and a value, or NULL.
AgeCells ==
    {Cell("TEXT", TRUE, ""), Cell("TEXT", FALSE, "7"),
     Cell("INT8", FALSE, "7"), Cell("INT8", TRUE, ""),
     Cell("FLOAT8", FALSE, "1.5"), Cell("BOOL", FALSE, "true"),
     Cell("INT4", FALSE, "3"), Cell("INT4", TRUE, "")}

ReadRow(i, e, a) ==
    [id |-> Cell("TEXT", FALSE, i), name |-> Cell("TEXT", FALSE, "Ada"),
     email |-> Cell("TEXT", FALSE, e), age |-> a]

ReadDbs ==
    {<<>>}
        \cup {<<ReadRow("k1", "a@m", a)>> : a \in AgeCells}
        \cup {<<ReadRow("k1", "a@m", a), ReadRow("k2", "b@m", b)>> :
                  a \in AgeCells, b \in AgeCells}

\* The places of the row-decoding loop.
DecodeSites ==
    {"OrmStruct.first", "OrmStruct.find", "OrmStruct.get_all",
     "QueryBuilder.fetch_all", "Query.get"}

\* The decoding loop of one operation run on the stored rows: the structured
\* value of each row, as the operation hands it to serde_json::from_value
\* (and returns it as is when T is serde_json::Value).
DecodeRows(site) ==
    /\ db # <<>>
    /\ last' = Call("decode", [site |-> site], table)
    /\ res' = Ok([i \in 1..Len(db) |-> DecodeRow(db[i])])
    /\ issued' = <<>>
    /\ before' = db
    /\ UNCHANGED <<inflight, pool, tables, db, uuidCtr, table, q, qb, rec, insLog>>

\* orm.find::<T>(table, column, filter)
OrmFindA(column, filter) ==
    /\ Return("OrmStruct.find", [column |-> column, filter |-> filter], table,
              OrmFind(table.name, column, filter, db, uuidCtr))
    /\ UNCHANGED <<inflight, pool, tables, table, q, qb, rec, insLog>>

\* orm.get_all::<T>(table)
OrmGetAllA ==
    /\ Return("OrmStruct.get_all", EmptyObj, table, OrmGetAll(table.name, db, uuidCtr))
    /\ UNCHANGED <<inflight, pool, tables, table, q, qb, rec, insLog>>

\* table.query().get(), one expression of the caller
GetAllByQuery ==
    LET qs == QNew(table.name, table.key_column) IN
    /\ Return("Query.get", EmptyObj, qs, QueryGet(qs, db, uuidCtr))
    /\ UNCHANGED <<inflight, pool, tables, table, q, qb, rec, insLog>>

\* orm.query(table).fetch_all::<T>(), one expression of the caller
FetchAllByBuilder ==
    LET b == QbNew(table.name)
        out == QbFetchAll(b, db)
    IN  /\ Return("QueryBuilder.fetch_all", EmptyObj, b,
                  Outcome(out.res, db, out.issued, uuidCtr))
        /\ UNCHANGED <<inflight, pool, tables, table, q, qb, rec, insLog>>

InitRead ==
    /\ pool = TRUE
    /\ tables = {"users"}
    /\ db \in ReadDbs
    /\ uuidCtr = 0
    /\ table = TableNew("users", "email")
    /\ q = None
    /\ qb = None
    /\ rec = None
    /\ last = Call("Table.new", EmptyObj, table)
    /\ res = Ok(<<>>)
    /\ issued = <<>>
    /\ before = db
    /\ insLog = <<>>
    /\ inflight = None

NextRead ==
    \/ \E site \in DecodeSites : DecodeRows(site)
    \/ \E e \in Emails : TableGetA(Obj1("email", JStr(e)))
    \/ \E e \in Emails : OrmFindA("email", e)
    \/ OrmGetAllA
    \/ GetAllByQuery
    \/ FetchAllByBuilder

SpecRead == InitRead /\ [][NextRead]_vars

----------------------------------------------------------------------------
(* Properties of reading (SpecRead) *)

\* The extractions in the order the decoding tries them.
Extractions == <<"i64", "f64", "bool", "String">>

\* What the first extraction that does not fail gives for a cell: null when
\* it extracts a null, the typed value otherwise; null when all four fail.
FirstExtraction(cell) ==
    LET ok == {k \in 1..Len(Extractions) : TryGet(cell, Extractions[k]) # "err"} IN
    IF ok = {} THEN JNull
    ELSE LET k == CHOOSE x \in ok : \A y \in ok : x <= y IN
         IF TryGet(cell, Extractions[k]) = "none" THEN JNull
         ELSE CASE Extractions[k] \in {"i64", "f64"} -> JNum(cell.v)
                [] Extractions[k] = "bool" -> JBool(cell.v)
                [] OTHER -> JStr(cell.v)

MultiRowReads == {"Query.get", "QueryBuilder.fetch_all", "OrmStruct.find", "OrmStruct.get_all"}

\* The rows the statement of the last call selected.
RowsRead == DbSelect(db, issued[1].plan, issued[1].params).rows

\* C19: when a row of the result of Query.get, QueryBuilder.fetch_all,
\* OrmStruct.find or OrmStruct.get_all does not deserialize into T, the call
\* fails with ColumnDecode and returns no record, also none of the rows
\* before the failing one.
C19_DecodeErrorFailsAll ==
    (/\ last.op \in MultiRowReads
     /\ Len(issued) = 1
     /\ \E i \in 1..Len(RowsRead) : FromValue(DecodeRow(RowsRead[i])) = None)
        => res = Err("ColumnDecode") /\ res.vals = <<>>

\* The first row deserializes, the second does not.
C19_Witness ==
    /\ last.op = "OrmStruct.get_all"
    /\ Len(db) = 2
    /\ FromValue(DecodeRow(db[1])) # None
    /\ FromValue(DecodeRow(db[2])) = None
    /\ res = Err("ColumnDecode")

----------------------------------------------------------------------------
(* Properties of the schema lookup (SpecQuery) *)

\* C20: a terminal call of a builder whose table name is absent from the
\* schema list of the connection handle fails with the schema-not-found
\* failure before any statement is sent.
C20_SchemaNotFoundFirst ==
    (last.op \in QueryTerminals /\ FindSchema(last.self.table_name) = None)
        => /\ issued = <<>>
           /\ res = Panic("Table schema not found")

----------------------------------------------------------------------------
(* orm.rs: OrmStruct::exists and OrmStruct::raw *)

ExistsStmt(schema, column, value) ==
    Stmt("SELECT EXISTS(SELECT 1 FROM " \o schema.name \o " WHERE " \o column \o " = $1)",
         <<PText(value)>>,
         SelectPlan(schema.name, <<"*">>, <<>>, <<Cond(column, "=", 1)>>, <<>>, <<>>,
                    None, None, None, FALSE))

\* OrmStruct::exists: Ok(bool), the boolean as its JSON value.
OrmExists(table_name, column, value, rows, ctr) ==
    LET found == FindSchema(table_name) IN
    IF found = None THEN Outcome(Panic("Table schema not found"), rows, <<>>, ctr)
    ELSE LET st == ExistsStmt(found[1], column, value)
             out == DbSelect(rows, st.plan, st.params)
         IN  IF ~pool THEN Outcome(Panic("Database not connected"), rows, <<>>, ctr)
             ELSE IF ~out.ok THEN Outcome(Err("Database"), rows, <<st>>, ctr)
             ELSE Outcome(Ok(<<JBool(IF out.rows # <<>> THEN "true" ELSE "false")>>),
                          rows, <<st>>, ctr)

\* OrmStruct::raw(sql), for a statement that reads: the text goes to the
\* database as given, with nothing bound and no schema lookup.
OrmRaw(sql, plan, rows, ctr) ==
    LET st == Stmt(sql, <<>>, plan)
        out == DbSelect(rows, st.plan, st.params)
    IN  IF ~pool THEN Outcome(Panic("Database not connected"), rows, <<>>, ctr)
        ELSE IF ~out.ok THEN Outcome(Err("Database"), rows, <<st>>, ctr)
        ELSE Outcome(Ok(<<>>), rows, <<st>>, ctr)

----------------------------------------------------------------------------
(* Every operation of the handle, before and after connect().              *)

\* orm.first::<T>(table, column, value)
OrmFirstA(column, value) ==
    /\ Return("OrmStruct.first", [column |-> column, value |-> value], table,
              OrmFirst(table.name, column, value, db, uuidCtr))
    /\ UNCHANGED <<inflight, pool, tables, table, q, qb, rec, insLog>>

\* orm.delete(table, column, value)
OrmDeleteA(column, value) ==
    /\ Return("OrmStruct.delete", [column |-> column, value |-> value], table,
              OrmDelete(table.name, column, value, db, uuidCtr))
    /\ UNCHANGED <<inflight, pool, tables, table, q, qb, rec, insLog>>

\* orm.exists(table, column, value)
OrmExistsA(column, value) ==
    /\ Return("OrmStruct.exists", [column |-> column, value |-> value], table,
              OrmExists(table.name, column, value, db, uuidCtr))
    /\ UNCHANGED <<inflight, pool, tables, table, q, qb, rec, insLog>>

\* orm.raw("SELECT * FROM users")
OrmRawA ==
    LET st == GetAllStmt(UsersSchema) IN
    /\ Return("OrmStruct.raw", [sql |-> st.sql], table,
              OrmRaw(st.sql, st.plan, db, uuidCtr))
    /\ UNCHANGED <<inflight, pool, tables, table, q, qb, rec, insLog>>

\* Record::new(table_name, value, key_column, orm): the constructor is public,
\* so a caller can hold a Record over a handle that never connected.
RecordNewA(value) ==
    /\ rec = None
    /\ rec' = Some(RecordNew(table.name, value, table.key_column))
    /\ last' = Call("Record.new", value, table)
    /\ res' = Ok(<<>>)
    /\ issued' = <<>>
    /\ before' = db
    /\ UNCHANGED <<inflight, pool, tables, db, uuidCtr, table, q, qb, insLog>>

\* Payloads of Record.update: one of strings, one with a number.
ConnPayloads == {Obj1("name", JStr("Bob")), Obj1("age", JNum("7"))}

InitConnect ==
    /\ pool = FALSE
    /\ tables = {}
    /\ db = <<>>
    /\ uuidCtr = 0
    /\ table \in {TableNew("users", "email"), TableNew("posts", "id")}
    /\ q = None
    /\ qb = None
    /\ rec = None
    /\ last = Call("OrmStruct.new", EmptyObj, table)
    /\ res = Ok(<<>>)
    /\ issued = <<>>
    /\ before = <<>>
    /\ insLog = <<>>
    /\ inflight = None

NextConnect ==
    \/ Connect
    \/ Migrate
    \/ \E e \in Emails : Insert(MkItem("k1", "Ada", e, JNull))
    \/ OrmFirstA("email", "a@m")
    \/ OrmFindA("email", "a@m")
    \/ OrmGetAllA
    \/ OrmUpdateA("email", "a@m", Obj1("name", JStr("Eve")))
    \/ OrmDeleteA("email", "a@m")
    \/ OrmExistsA("email", "a@m")
    \/ OrmRawA
    \/ OrmQuery(table.name)
    \/ QbFetchAllA
    \/ QbDrop
    \/ GetAllByQuery
    \/ \E filter \in {Obj1("email", JStr("a@m")), Obj1("id", JNum("1"))} : TableGetA(filter)
    \/ RecordNewA(MkItem("k1", "Ada", "a@m", JNull))
    \/ \E updates \in ConnPayloads : RecUpdateA(updates)
    \/ RecDeleteA

SpecConnect == InitConnect /\ [][NextConnect]_vars

----------------------------------------------------------------------------
(* Properties of the connection (SpecConnect) *)

\* The operations that would send a statement.
DbOps ==
    {"OrmStruct.migrate", "Table.insert", "OrmStruct.first", "OrmStruct.find",
     "OrmStruct.get_all", "OrmStruct.update", "OrmStruct.delete", "OrmStruct.exists",
     "OrmStruct.raw", "OrmStruct.query", "Query.get", "Table.get", "Record.update",
     "Record.delete"}

\* The failures of an absent pool: pool() (orm.rs 42-44), query (orm.rs 395)
\* and Record::update (new_orm.rs 173).
PoolAbsent ==
    {Panic("Database not connected"), Panic("DB pool not initialized"),
     Panic(UnwrapNone)}

\* The call passes every check the operation makes on its own arguments
\* before it asks for the pool.
ArgsAccepted ==
    CASE last.op \in {"Table.insert", "OrmStruct.first", "OrmStruct.find",
                      "OrmStruct.get_all", "OrmStruct.update", "OrmStruct.delete",
                      "OrmStruct.exists"} ->
             FindSchema(last.self.name) # None
      [] last.op = "Table.get" ->
             /\ FindSchema(last.self.name) # None
             /\ Cardinality(DOMAIN last.arg) = 1
             /\ \A k \in DOMAIN last.arg : last.arg[k].t = "str"
      [] last.op = "Record.update" ->
             /\ \A k \in DOMAIN last.arg : last.arg[k].t = "str"
             /\ last.self.id.t = "str"
      [] last.op = "Record.delete" ->
             /\ FindSchema(last.self.table_name) # None
             /\ last.self.key_column \in DOMAIN last.self.value
             /\ last.self.value[last.self.key_column].t = "str"
      [] OTHER -> TRUE

\* While no connect() has succeeded no QueryBuilder exists, and a
\* database-facing call fails, sends nothing and leaves the rows alone; a
\* call whose arguments were accepted fails for the absent pool.
FailsUnconnected ==
    ~pool =>
        /\ qb = None
        /\ last.op \in DbOps =>
               /\ res.kind = "panic"
               /\ issued = <<>>
               /\ db = before
               /\ ArgsAccepted => res \in PoolAbsent

\* The pool appears only in a connect() that returns Ok, and a connect()
\* that fails leaves it absent.
PoolOnlyByConnect ==
    /\ (~pool /\ pool') => (last'.op = "OrmStruct.connect" /\ res' = Ok(<<>>))
    /\ (last'.op = "OrmStruct.connect" /\ last' # last /\ res'.kind # "ok") => ~pool'

----------------------------------------------------------------------------
(* Properties of Table.get on scalar filter values (Spec) *)

\* C22: Table.get with a one-key filter whose value is a scalar, a number as
\* much as a string, sends one SELECT * FROM <table> WHERE <key> = $1 LIMIT 1
\* with that value bound and returns the matching record or none; it does
\* not fail before the database is asked.
C22_GetAnyScalar ==
    (/\ last.op = "Table.get"
     /\ pool
     /\ last.self.name \in tables
     /\ Cardinality(DOMAIN last.arg) = 1)
        => LET column == CHOOSE k \in DOMAIN last.arg : TRUE
               value == last.arg[column]
           IN  /\ res.kind = "ok"
               /\ Len(res.vals) <= 1
               /\ Len(issued) = 1
               /\ issued[1].sql = "SELECT * FROM " \o last.self.name \o " WHERE "
                                      \o column \o " = $1 LIMIT 1"
               /\ issued[1].params = <<PText(value.v)>>

----------------------------------------------------------------------------
(* Properties of the QueryBuilder's parameters (SpecQB) *)

EndsWith(s, suffix) ==
    /\ Len(s) >= Len(suffix)
    /\ SubSeq(s, Len(s) - Len(suffix) + 1, Len(s)) = suffix

QbWhereCalls == {"QueryBuilder.where", "QueryBuilder.like", "QueryBuilder.ilike"}

QbOtherCalls ==
    {"QueryBuilder.select", "QueryBuilder.join", "QueryBuilder.left_join",
     "QueryBuilder.limit", "QueryBuilder.order_by"}

\* The parameter a condition-adding call binds for the value it was given.
GivenValue(call) ==
    IF call.op = "QueryBuilder.where" THEN call.arg.value
    ELSE "%" \o call.arg.pattern \o "%"

\* C23: in a QueryBuilder there are as many parameters as WHERE conditions
\* and the i-th condition refers to $i; a where / like / ilike call appends
\* one condition and, as its parameter, the value it was given (a pattern
\* inside %...%), leaving the earlier ones as they were; select, join,
\* left_join, limit and order_by leave conditions and parameters alone; a
\* terminal call binds exactly these parameters, in order.
C23_ParamsFollowWheres ==
    qb # None =>
        LET b == qb[1]
            b0 == last.self
        IN  /\ Len(b.params) = Len(b.wheres)
            /\ \A i \in 1..Len(b.wheres) :
                   /\ EndsWith(b.wheres[i], " $" \o ToString(i))
                   /\ b.plan.conds[i].ph = i
            /\ last.op \in QbWhereCalls =>
                   /\ Len(b.wheres) = Len(b0.wheres) + 1
                   /\ SubSeq(b.wheres, 1, Len(b0.wheres)) = b0.wheres
                   /\ b.params = b0.params \o <<GivenValue(last)>>
            /\ last.op \in QbOtherCalls =>
                   /\ b.wheres = b0.wheres
                   /\ b.params = b0.params
            /\ last.op \in {"QueryBuilder.fetch_all", "QueryBuilder.fetch_one"} =>
                   /\ Len(issued) = 1
                   /\ issued[1].params = [k \in 1..Len(b0.wheres) |-> PText(b0.params[k])]

C23_Witness ==
    /\ qb # None
    /\ last.op = "QueryBuilder.where"
    /\ last.self.joins # <<>>
    /\ last.self.limit_clause # None
    /\ qb[1].wheres = <<"name LIKE $1", "email = $2">>
    /\ qb[1].params = <<"%Ad%", "b@m">>

----------------------------------------------------------------------------
(* Properties of the SET list (SpecUpdate) *)

\* C24: every UPDATE statement that OrmStruct.update or Record.update sends
\* has at least one SET assignment; on a payload that gives no column to set
\* no UPDATE with an empty SET list is sent.
C24_UpdateSetsSomething ==
    last.op \in {"OrmStruct.update", "Record.update"} =>
        \A i \in 1..Len(issued) :
            issued[i].plan.kind = "update" =>
                /\ issued[i].plan.sets # <<>>
                /\ ~Contains(issued[i].sql, " SET  WHERE ")

----------------------------------------------------------------------------
(* Record::update statement by statement: its UPDATE and its re-fetch are   *)
(* two awaits on the pool, and other tasks run their statements on the same *)
(* table at any time, also between the two.                                 *)

\* Record::update up to query.execute(..).await?: Ok(()) when the UPDATE ran.
RecordUpdateExec(r, updates, rows, ctr) ==
    IF \E k \in DOMAIN updates : updates[k].t # "str"
    THEN Outcome(Panic("value must be string"), rows, <<>>, ctr)
    ELSE IF r.id.t # "str"
    THEN Outcome(Panic(UnwrapNone), rows, <<>>, ctr)
    ELSE IF ~pool
    THEN Outcome(Panic(UnwrapNone), rows, <<>>, ctr)
    ELSE LET st == RecordUpdateStmt(r, updates)
             out == DbUpdate(rows, st.plan, st.params)
         IN  IF ~out.ok THEN Outcome(Err("Database"), rows, <<st>>, ctr)
             ELSE Outcome(Ok(<<>>), out.rows, <<st>>, ctr)

\* The re-fetch without its condition: the last row of the table.
RecordUpdateRefetch_no_where(r, rows) == QbFetchOne(QbNew(r.table_name), rows)

\* orm.query(table).where(key_column, "=", id).fetch_one(), on the rows the
\* table holds when it runs.
RecordUpdateRefetch(r, rows) ==
    QbFetchOne(QbWhere(QbNew(r.table_name), r.key_column, "=", r.id.v), rows)

\* No Record::update is between its two statements.
Idle == IF inflight = None THEN TRUE ELSE inflight[1].pc = "done"

\* Record::update(updates) up to the end of its UPDATE statement.  A call
\* that fails there returns at once.
RecUpdateSend(updates) ==
    /\ rec # None
    /\ Idle
    /\ LET out == RecordUpdateExec(rec[1], updates, db, uuidCtr) IN
       IF out.res.kind = "ok"
       THEN /\ inflight' = Some([self |-> rec[1], updates |-> updates, pc |-> "sent",
                                 issued |-> out.issued, before |-> db,
                                 between |-> FALSE])
            /\ db' = out.rows
            /\ UNCHANGED <<pool, tables, uuidCtr, table, q, qb, rec, last, res, issued,
                           before, insLog>>
       ELSE /\ inflight' = None
            /\ Return("Record.update", updates, rec[1], out)
            /\ UNCHANGED <<pool, tables, table, q, qb, rec, insLog>>

\* The re-fetch of that call, and its return.
RecUpdateFetch ==
    /\ inflight # None
    /\ inflight[1].pc = "sent"
    /\ LET c == inflight[1]
           f == RecordUpdateRefetch(c.self, db)
       IN  /\ last' = Call("Record.update", c.updates, c.self)
           /\ res' = f.res
           /\ issued' = c.issued \o f.issued
           /\ before' = c.before
           /\ inflight' = Some([c EXCEPT !.pc = "done", !.issued = <<>>, !.before = <<>>])
    /\ UNCHANGED <<pool, tables, db, uuidCtr, table, q, qb, rec, insLog>>

\* A statement of another task on the table: only its effect on the rows is
\* followed, and that it ran while the update was between its statements.
Other(out) ==
    /\ out.res.kind = "ok"
    /\ db' = out.rows
    /\ uuidCtr' = out.ctr
    /\ inflight' = IF Idle THEN inflight
                   ELSE Some([inflight[1] EXCEPT !.between = TRUE])
    /\ UNCHANGED <<pool, tables, table, q, qb, rec, last, res, issued, before, insLog>>

OtherUpdate(e) ==
    Other(OrmUpdate("users", "email", e, Obj1("name", JStr("Eve")), db, uuidCtr))

OtherDelete(e) == Other(OrmDelete("users", "email", e, db, uuidCtr))

OtherInsert(e) ==
    /\ Len(db) < MaxRows
    /\ Other(OrmInsert("users", MkItem("k3", "42", e, JNull), db, uuidCtr))

\* Payloads: a new name, and the name the rows may already have.
ConcPayloads == {Obj1("name", JStr("Bob")), Obj1("name", JStr("42"))}

\* The table with one stored row.
OneRow == <<TwoRows[1]>>

InitConcurrent ==
    /\ pool = TRUE
    /\ tables = {"users"}
    /\ db = OneRow
    /\ uuidCtr = 1
    /\ table \in {TableNew("users", "email"), TableNew("users", "name")}
    /\ q = None
    /\ qb = None
    /\ rec = None
    /\ last = Call("Table.new", EmptyObj, table)
    /\ res = Ok(<<>>)
    /\ issued = <<>>
    /\ before = OneRow
    /\ insLog = <<>>
    /\ inflight = None

NextConcurrent ==
    \/ TableGetA(Obj1("email", JStr("a@m")))
    \/ Hold
    \/ \E updates \in ConcPayloads : RecUpdateSend(updates)
    \/ RecUpdateFetch
    \/ OtherUpdate("a@m")
    \/ OtherDelete("a@m")
    \/ OtherInsert("c@m")

SpecConcurrent == InitConcurrent /\ [][NextConcurrent]_vars

----------------------------------------------------------------------------
(* Properties of the value Record.update returns (SpecConcurrent) *)

\* The last call was a Record.update that returned a value.
UpdateReturned ==
    /\ last.op = "Record.update"
    /\ res.kind = "ok"
    /\ inflight # None
    /\ inflight[1].pc = "done"
    /\ inflight[1].self = last.self
    /\ inflight[1].updates = last.arg

PayloadApplied == \A k \in DOMAIN last.arg : res.vals[1][k] = last.arg[k]

\* C25 as stated: whenever Record.update returns a value, every payload
\* column of it has the payload's value, whatever other tasks ran between
\* the UPDATE and the re-fetch and however many rows the key matches.
C25_ReturnsPayloadAlways == UpdateReturned => PayloadApplied

\* C25 as amended: the same, for a call between whose UPDATE and re-fetch no
\* other task ran a statement on the table.
C25_ReturnsPayloadUndisturbed ==
    (UpdateReturned /\ ~inflight[1].between) => PayloadApplied

C25_Witness ==
    /\ UpdateReturned
    /\ ~inflight[1].between
    /\ last.arg = Obj1("name", JStr("Bob"))
    /\ \E i \in 1..Len(before) : before[i]["name"].v = "Eve"
    /\ res.vals[1]["name"] = JStr("Bob")
    /\ Len(issued) = 2

====
